---- MODULE Spec2Model ----
(***************************************************************************)
(* Transport and session layer of octofhir-mcp: the JSON-RPC codec, the    *)
(* stdio read/dispatch loop, and the HTTP/SSE transport with its           *)
(* authentication middleware and per-connection stream loop.               *)
(*                                                                         *)
(* Specifications:                                                         *)
(*   Spec / FairSpec        the stdio transport (src/transport/stdio.rs)   *)
(*   HttpSpec               request routing and authentication (http.rs)   *)
(*   SseAuthSpec            SSE authentication (sse_auth.rs, http.rs)      *)
(*   FairSseSpec            the life of SSE streams (http.rs, sse_auth.rs) *)
(*   BurstSpec              one stream under a burst of messages (http.rs)  *)
(*   WriterSpec             concurrent writers of standard output (stdio.rs) *)
(*   CodecSpec              the JSON-RPC codec on every message (mod.rs)    *)
(*   AuthSpec               the Authenticator's entry points (auth.rs)      *)
(*   BodySpec               input validation on the mutating routes        *)
(*   MetricsSpec            requests through the metrics middleware        *)
(*   WindowSpec             the sample window of the metrics (health.rs)   *)
(*   HealthSpec             health aggregation, /health and /ready         *)
(*   PercentileSpec         calculate_percentile (health.rs)               *)
(*   ExpirySpec             SseConnection::is_expired at an instant        *)
(*   MainSpec               main of the server binary and its select!      *)
(*   RecordersSpec          concurrent record_request and metric reads     *)
(*   RefreshSpec            create_refresh_event for a connection of an age *)
(*   RateSpec               requests_per_minute as time passes             *)
(***************************************************************************)
EXTENDS Integers, Sequences, FiniteSets, TLC

VARIABLES
    \* ---- stdio transport ----
    pc,               \* position of process_messages: idle | check | read | stopped
    shutdown_signal,  \* StdioTransport.shutdown_signal
    stdin,            \* lines written by the client and not yet read
    eof,              \* the client closed standard input
    consumed,         \* history: the lines read_message has taken, in order
    stdout,           \* the documents written to standard output, in order
    sdInRead,         \* history: shutdown() was called while this run of the loop waited in a read
    \* ---- HTTP/SSE transport ----
    config,           \* HttpTransport: auth_enabled and security_provider (its AuthConfig)
    sse_clients,      \* HttpTransport.sse_clients: client_id -> the channel whose sender it holds
    streams,          \* the SSE streams opened so far; stream k owns channel k
    resp,             \* history: the latest HTTP request and what became of it
    published,        \* history: number of messages handed to the SSE channels
    \* ---- the writer of the stdio transport ----
    writer,           \* StdioTransport.writer: who holds the Mutex, and the BufWriter's buffer
    wire,             \* what has reached standard output, write by write
    wtask,            \* each task's position inside write_message, and what it writes
    wcalls,           \* history: number of calls of write_message
    \* ---- the pure functions ----
    call,             \* the latest call of a pure function: its input and what it returned
    \* ---- metrics (metrics/health.rs) and the metrics middleware ----
    active_connections,  \* HealthMonitor.active_connections
    total_requests,      \* HealthMonitor.total_requests
    request_metrics,     \* HealthMonitor.request_metrics: response_times and error_count
    in_flight,           \* each request's position inside metrics_middleware
    recorded,            \* history: every sample handed to record_request, in order
    recorders,           \* each concurrent caller's position inside HealthMonitor::record_request
    rw_lock,             \* the RwLock of request_metrics: its writer and its readers
    readers,             \* each concurrent caller's position inside get_performance_metrics
    last_minute_requests,  \* RequestMetrics.last_minute_requests: the Instants kept
    clock,               \* Instant::now(), in seconds since the monitor was made
    recorded_at,         \* history: the time of every call of record_request, in order
    \* ---- the server binary (bin/octofhir-mcp.rs) ----
    transport_mode,      \* cli.transport
    main_pc,             \* main's position: before the transports start, in the select!, returned
    ctrl_c,              \* the shutdown_signal future of main has completed
    http_task,           \* HttpTransport::start in main: not started, serving, returned
    shutdown_calls,      \* the transports main has called shutdown() on
    winner,              \* the branch of the select! that ran
    exit_status          \* what main returned, as the process's exit status

stdioVars == <<pc, shutdown_signal, stdin, eof, consumed, stdout, sdInRead>>

httpVars == <<config, sse_clients, streams, resp, published>>

writerVars == <<writer, wire, wtask, wcalls>>

recordVars == <<recorders, rw_lock, readers>>

rateVars == <<last_minute_requests, clock, recorded_at>>

metricsVars == <<active_connections, total_requests, request_metrics, in_flight, recorded,
                recorders, rw_lock, readers, last_minute_requests, clock, recorded_at>>

mainVars == <<transport_mode, main_pc, ctrl_c, http_task, shutdown_calls, winner,
             exit_status>>

vars == <<pc, shutdown_signal, stdin, eof, consumed, stdout, sdInRead,
          config, sse_clients, streams, resp, published,
          writer, wire, wtask, wcalls, call,
          active_connections, total_requests, request_metrics, in_flight, recorded,
          recorders, rw_lock, readers, last_minute_requests, clock, recorded_at,
          transport_mode, main_pc, ctrl_c, http_task, shutdown_calls, winner,
          exit_status>>

----------------------------------------------------------------------------
(* Bounds *)

\* Number of lines a client writes to standard input in one behaviour.
MaxLines == 3

\* Number of calls of write_message in one behaviour of the writer.
MaxWrites == 4

\* The largest message id the codec is applied to.
MaxId == 1

\* Number of requests that enter the metrics middleware in one behaviour.
MaxRequests == 3

\* Number of samples recorded in one behaviour of the sample window.
MaxSamples == 1002

\* The longest window a percentile is computed of.
MaxWindow == 51

\* The longest timeout_seconds a connection is asked about.
MaxTimeout == 3

\* Concurrent callers of record_request, and of get_performance_metrics.
MaxRecorders == 2
MaxReaders == 1

\* The oldest connection create_refresh_event is asked about, in seconds.
MaxAge == 6

\* How far the clock of the request rate runs, in seconds, and how many
\* requests are recorded on the way.
MaxClock == 120
MaxRated == 3

----------------------------------------------------------------------------
(* Wire documents and the codec (src/transport/mod.rs) *)

Absent == "<absent>"
AbsentId == -1      \* no "id" member (or null)
BadId == -2         \* an "id" member that is not a u64 (a string, a negative number)

\* One input line. wf: "empty" (whitespace only), "garbage" (not a JSON object),
\* "object". The other fields are the members of the object.
WireDoc(wf, jsonrpc, id, method, params, result, error) ==
    [wf |-> wf, jsonrpc |-> jsonrpc, id |-> id, method |-> method,
     params |-> params, result |-> result, error |-> error]

EmptyLine == WireDoc("empty", FALSE, AbsentId, Absent, Absent, Absent, Absent)
GarbageLine == WireDoc("garbage", FALSE, AbsentId, Absent, Absent, Absent, Absent)
RequestLine(id, method, params) == WireDoc("object", TRUE, id, method, params, Absent, Absent)
NotificationLine(method) == WireDoc("object", TRUE, AbsentId, method, Absent, Absent, Absent)
ResponseLine(id) == WireDoc("object", TRUE, id, Absent, Absent, "r", Absent)

\* JsonRpcMessage: the envelope.
Envelope(variant, id, method, params, result, error) ==
    [variant |-> variant, id |-> id, method |-> method, params |-> params,
     result |-> result, error |-> error]

DecodeError == Envelope("DecodeError", AbsentId, Absent, Absent, Absent, Absent)

\* serde_json::from_str::<JsonRpcMessage>: the enum is untagged, so the variants
\* are tried in declaration order and the first whose fields fit is taken.
\* Request fits any object with a string jsonrpc, a string method and an id
\* that is absent or a u64; Response fits any object with a string jsonrpc and
\* such an id (all its other fields are optional); Notification fits what is
\* left with a jsonrpc and a method.
Decode(doc) ==
    IF doc.wf # "object" \/ ~doc.jsonrpc THEN DecodeError
    ELSE IF doc.method # Absent /\ doc.id # BadId
        THEN Envelope("Request", doc.id, doc.method, doc.params, Absent, Absent)
    ELSE IF doc.id # BadId
        THEN Envelope("Response", doc.id, Absent, Absent, doc.result, doc.error)
    ELSE IF doc.method # Absent
        THEN Envelope("Notification", AbsentId, doc.method, doc.params, Absent, Absent)
    ELSE DecodeError

\* A JSON value that is null, held in an Option<Value>: Some(Value::Null).
NullValue == "null"

\* An Option member on the wire: None and Some(Value::Null) are both written
\* as null, and null is read back as None.
Member(v) == IF v = NullValue THEN Absent ELSE v

\* serde_json::to_string of an envelope.
Encode(env) ==
    WireDoc("object", TRUE, env.id, env.method, Member(env.params),
            Member(env.result), env.error)

\* McpMessage, and the error of a failed translation.
Mcp(variant, id, method, params, result, error) ==
    [variant |-> variant, id |-> id, method |-> method, params |-> params,
     result |-> result, error |-> error]

McpErr(msg) == Mcp("Err", AbsentId, msg, Absent, Absent, Absent)

\* serde_json::from_value::<InitializeParams> / <ToolsCallParams> succeed on a
\* value of that shape only.
ParsesAsInitializeParams(p) == p \in {"init", "init+extra"}
ParsesAsToolsCallParams(p) == p \in {"call", "call+extra"}

\* serde_json::from_value into the typed params: members the struct does not
\* declare are dropped.  (serde_json::to_value of the typed params writes the
\* declared members back.)
from_value(p) ==
    CASE p = "init+extra" -> "init"
      [] p = "call+extra" -> "call"
      [] OTHER -> p

\* from_jsonrpc with the method looked at before the id.
from_jsonrpc_method_first(env) ==
    CASE env.variant = "Request" ->
            IF env.method \notin {"initialize", "tools/list", "tools/call"}
                THEN McpErr("Unknown method: " \o env.method)
            ELSE IF env.id = AbsentId THEN McpErr("Missing request ID")
            ELSE Mcp("ToolsList", env.id, Absent, Absent, Absent, Absent)
      [] env.variant = "Response" ->
            IF env.id = AbsentId THEN McpErr("Missing response ID")
            ELSE Mcp("Response", env.id, Absent, Absent, env.result, env.error)
      [] OTHER ->
            Mcp("Notification", AbsentId, env.method, env.params, Absent, Absent)

from_jsonrpc(env) ==
    CASE env.variant = "Request" ->
            IF env.id = AbsentId THEN McpErr("Missing request ID")
            ELSE IF env.method = "initialize" THEN
                IF env.params = Absent THEN McpErr("Missing initialize params")
                ELSE IF ~ParsesAsInitializeParams(env.params)
                    THEN McpErr("Failed to parse initialize params")
                ELSE Mcp("Initialize", env.id, Absent, from_value(env.params), Absent, Absent)
            ELSE IF env.method = "tools/list" THEN
                Mcp("ToolsList", env.id, Absent, Absent, Absent, Absent)
            ELSE IF env.method = "tools/call" THEN
                IF env.params = Absent THEN McpErr("Missing tool call params")
                ELSE IF ~ParsesAsToolsCallParams(env.params)
                    THEN McpErr("Failed to parse tool call params")
                ELSE Mcp("ToolsCall", env.id, Absent, from_value(env.params), Absent, Absent)
            ELSE McpErr("Unknown method: " \o env.method)
      [] env.variant = "Response" ->
            IF env.id = AbsentId THEN McpErr("Missing response ID")
            ELSE Mcp("Response", env.id, Absent, Absent, env.result, env.error)
      [] env.variant = "Notification" ->
            Mcp("Notification", AbsentId, env.method, env.params, Absent, Absent)
      [] OTHER -> McpErr("Failed to parse JSON-RPC message")

to_jsonrpc(m) ==
    CASE m.variant = "Initialize" ->
            Envelope("Request", m.id, "initialize", m.params, Absent, Absent)
      [] m.variant = "ToolsList" ->
            Envelope("Request", m.id, "tools/list", Absent, Absent, Absent)
      [] m.variant = "ToolsCall" ->
            Envelope("Request", m.id, "tools/call", m.params, Absent, Absent)
      [] m.variant = "Notification" ->
            Envelope("Notification", AbsentId, m.method, m.params, Absent, Absent)
      [] OTHER ->
            Envelope("Response", m.id, Absent, Absent, m.result, m.error)

----------------------------------------------------------------------------
(* The codec applied to messages and envelopes of every shape *)

NoValue == Envelope("None", AbsentId, Absent, Absent, Absent, Absent)

\* No pure function has been called yet.
NoCall == [op |-> "none", arg |-> NoValue, mid |-> NoValue, ret |-> NoValue]

Ids == 0..MaxId

\* The internal messages: every variant of McpMessage.
McpMessages ==
    {Mcp("Initialize", id, Absent, "init", Absent, Absent) : id \in Ids}
    \cup {Mcp("ToolsList", id, Absent, Absent, Absent, Absent) : id \in Ids}
    \cup {Mcp("ToolsCall", id, Absent, "call", Absent, Absent) : id \in Ids}
    \cup {Mcp("Notification", AbsentId, method, params, Absent, Absent) :
             method \in {"notifications/initialized", "notifications/message"},
             params \in {Absent, "p", NullValue}}
    \cup {Mcp("Response", id, Absent, Absent, result, error) :
             id \in Ids, result \in {Absent, "r", NullValue}, error \in {Absent, "e"}}

\* The envelopes: every variant of JsonRpcMessage.
Envelopes ==
    {Envelope("Request", id, method, params, Absent, Absent) :
         id \in Ids \cup {AbsentId},
         method \in {"initialize", "tools/list", "tools/call", "resources/list", "ping"},
         params \in {Absent, "init", "init+extra", "call", "junk"}}
    \cup {Envelope("Response", id, Absent, Absent, result, error) :
             id \in Ids \cup {AbsentId}, result \in {Absent, "r"}, error \in {Absent, "e"}}
    \cup {Envelope("Notification", AbsentId, method, params, Absent, Absent) :
             method \in {"notifications/initialized", "notifications/message"},
             params \in {Absent, "p"}}

\* A message is converted to its envelope and written (to_jsonrpc,
\* serde_json::to_string, as write_message does), then read back
\* (serde_json::from_str, from_jsonrpc, as read_message does).
RoundTripMessage ==
    /\ \E m \in McpMessages :
          LET env == Decode(Encode(to_jsonrpc(m)))
          IN call' = [op |-> "message", arg |-> m, mid |-> env,
                      ret |-> from_jsonrpc(env)]
    /\ UNCHANGED <<stdioVars, httpVars, writerVars, metricsVars, mainVars>>

\* An envelope is translated (from_jsonrpc) and, if that succeeds, translated
\* back (to_jsonrpc).
RoundTripEnvelope ==
    /\ \E e \in Envelopes :
          LET m == from_jsonrpc(e)
          IN call' = [op |-> "envelope", arg |-> e, mid |-> m,
                      ret |-> IF m.variant = "Err" THEN NoValue ELSE to_jsonrpc(m)]
    /\ UNCHANGED <<stdioVars, httpVars, writerVars, metricsVars, mainVars>>

NextCodec ==
    \/ RoundTripMessage
    \/ RoundTripEnvelope

----------------------------------------------------------------------------
(* The session handler (src/server.rs) *)

NoReply == Mcp("None", AbsentId, Absent, Absent, Absent, Absent)

\* McpServer::handle_message: Ok(Some(Response)) for the three requests,
\* Ok(None) for a notification or a response.  toolOk is the outcome of
\* handle_tool_call (a failing tool is answered with an error member).
handle_message_dropping_list(m, toolOk) ==
    CASE m.variant = "Initialize" -> Mcp("Response", m.id, Absent, Absent, "r", Absent)
      [] m.variant = "ToolsList" -> NoReply
      [] m.variant = "ToolsCall" ->
            IF toolOk THEN Mcp("Response", m.id, Absent, Absent, "r", Absent)
            ELSE Mcp("Response", m.id, Absent, Absent, Absent, "e")
      [] OTHER -> NoReply

handle_message(m, toolOk) ==
    CASE m.variant = "Initialize" -> Mcp("Response", m.id, Absent, Absent, "r", Absent)
      [] m.variant = "ToolsList" -> Mcp("Response", m.id, Absent, Absent, "r", Absent)
      [] m.variant = "ToolsCall" ->
            IF toolOk THEN Mcp("Response", m.id, Absent, Absent, "r", Absent)
            ELSE Mcp("Response", m.id, Absent, Absent, Absent, "e")
      [] OTHER -> NoReply

----------------------------------------------------------------------------
(* The stdio transport (src/transport/stdio.rs) *)

\* StdioTransport::read_message on one line: "none" is Ok(None) (an empty
\* line), "err" a decode or translate failure, "msg" Ok(Some(message)).
read_message(line) ==
    IF line.wf = "empty" THEN [tag |-> "none", msg |-> NoReply]
    ELSE LET env == Decode(line) IN
         IF env.variant = "DecodeError" THEN [tag |-> "err", msg |-> NoReply]
         ELSE LET m == from_jsonrpc(env) IN
              IF m.variant = "Err" THEN [tag |-> "err", msg |-> NoReply]
              ELSE [tag |-> "msg", msg |-> m]

\* StdioTransport::write_message: one document, a line terminator, a flush.
write_message_with_echo(out, m) ==
    Append(Append(out, Encode(to_jsonrpc(m))), Encode(to_jsonrpc(m)))

write_message(out, m) == Append(out, Encode(to_jsonrpc(m)))

\* Where process_messages goes after a read, by the arm of its match: every
\* arm falls through or continues to the top of the loop.
after_read_stop_on_error(tag) == IF tag = "err" THEN "stopped" ELSE "check"

after_read(tag) == "check"

\* The top of the loop: the shutdown flag is looked at here and nowhere else.
loop_top_ignoring_flag(flag) == "read"

loop_top(flag) == IF flag THEN "stopped" ELSE "read"

\* The lines a client writes, by kind; the k-th line it writes carries id k.
LineOf(kind, k) ==
    CASE kind = "initialize" -> RequestLine(k, "initialize", "init")
      [] kind = "tools/list" -> RequestLine(k, "tools/list", Absent)
      [] kind = "tools/call" -> RequestLine(k, "tools/call", "call")
      [] kind = "bad-params" -> RequestLine(k, "tools/call", "junk")
      [] kind = "unknown-method" -> RequestLine(k, "resources/list", Absent)
      [] kind = "notification" -> NotificationLine("notifications/initialized")
      [] kind = "response" -> ResponseLine(k)
      [] kind = "garbage" -> GarbageLine
      [] OTHER -> EmptyLine

LineKinds ==
    {"initialize", "tools/list", "tools/call", "bad-params", "unknown-method",
     "notification", "response", "garbage", "empty"}

\* One kind for each outcome of read_message (a message, an error, nothing):
\* all that the control flow of the loop depends on.
LiveLineKinds == {"tools/list", "garbage", "empty"}

InitStdio ==
    /\ pc = "idle"
    /\ shutdown_signal = FALSE
    /\ stdin = <<>>
    /\ eof = FALSE
    /\ consumed = <<>>
    /\ stdout = <<>>
    /\ sdInRead = FALSE

\* The client writes one more line to the server's standard input.
ClientWrite(kinds) ==
    /\ ~eof
    /\ Len(consumed) + Len(stdin) < MaxLines
    /\ \E kind \in kinds :
           stdin' = Append(stdin, LineOf(kind, Len(consumed) + Len(stdin) + 1))
    /\ UNCHANGED <<pc, shutdown_signal, eof, consumed, stdout, sdInRead>>
    /\ UNCHANGED httpVars
    /\ UNCHANGED <<writerVars, call, metricsVars, mainVars>>

\* The client closes the server's standard input.
ClientClose ==
    /\ ~eof
    /\ eof' = TRUE
    /\ UNCHANGED <<pc, shutdown_signal, stdin, consumed, stdout, sdInRead>>
    /\ UNCHANGED httpVars
    /\ UNCHANGED <<writerVars, call, metricsVars, mainVars>>

\* Transport::start: resets the flag and enters process_messages.
Start ==
    /\ pc \in {"idle", "stopped"}
    /\ shutdown_signal' = FALSE
    /\ pc' = "check"
    /\ sdInRead' = FALSE
    /\ UNCHANGED <<stdin, eof, consumed, stdout>>
    /\ UNCHANGED httpVars
    /\ UNCHANGED <<writerVars, call, metricsVars, mainVars>>

\* Transport::shutdown: sets the flag (the writer holds nothing unflushed).
Shutdown ==
    /\ shutdown_signal' = TRUE
    /\ sdInRead' = (sdInRead \/ pc = "read")
    /\ UNCHANGED <<pc, stdin, eof, consumed, stdout>>
    /\ UNCHANGED httpVars
    /\ UNCHANGED <<writerVars, call, metricsVars, mainVars>>

\* process_messages, lines 112-117.
LoopCheck ==
    /\ pc = "check"
    /\ pc' = loop_top(shutdown_signal)
    /\ UNCHANGED <<shutdown_signal, stdin, eof, consumed, stdout, sdInRead>>
    /\ UNCHANGED httpVars
    /\ UNCHANGED <<writerVars, call, metricsVars, mainVars>>

\* process_messages, lines 119-152: the read returns when a line or the end of
\* input is there; the message is dispatched and its reply written before the
\* loop goes round.
LoopRead ==
    /\ pc = "read"
    /\ IF stdin # <<>>
       THEN \E toolOk \in BOOLEAN :
            LET line == Head(stdin)
                got == read_message(line)
                reply == IF got.tag = "msg" THEN handle_message(got.msg, toolOk)
                         ELSE NoReply
            IN /\ stdin' = Tail(stdin)
               /\ consumed' = Append(consumed, line)
               /\ stdout' = IF reply.variant = "None" THEN stdout
                            ELSE write_message(stdout, reply)
               /\ pc' = after_read(got.tag)
       ELSE /\ eof                   \* read_line returns Ok(0): Ok(None), continue
            /\ pc' = after_read("none")
            /\ UNCHANGED <<stdin, consumed, stdout>>
    /\ UNCHANGED <<shutdown_signal, eof, sdInRead>>
    /\ UNCHANGED httpVars
    /\ UNCHANGED <<writerVars, call, metricsVars, mainVars>>

Next ==
    \/ ClientWrite(LineKinds)
    \/ ClientClose
    \/ Start
    \/ Shutdown
    \/ LoopCheck
    \/ LoopRead

\* The same transport with the client's lines drawn from LiveLineKinds, for
\* the properties of the loop's progress.
NextLive ==
    \/ ClientWrite(LiveLineKinds)
    \/ ClientClose
    \/ Start
    \/ Shutdown
    \/ LoopCheck
    \/ LoopRead

\* The lifecycle of section 4.2, read off the loop position and the flag.
Lifecycle ==
    IF pc = "idle" THEN "Idle"
    ELSE IF pc = "stopped" THEN "Stopped"
    ELSE IF shutdown_signal THEN "ShuttingDown"
    ELSE "Running"

----------------------------------------------------------------------------
(* The writer of the stdio transport, write by write (stdio.rs 45-61): who
   holds the Mutex around the BufWriter, what is in its buffer, and what has
   reached standard output. *)

\* The tasks that call write_message: process_messages with a reply, and a
\* caller of Transport::send_message.
Writers == {"loop", "caller"}

\* What a task writes: the loop a reply to request k, send_message any message.
WriterMessages(t, k) ==
    IF t = "loop"
    THEN {Mcp("Response", k, Absent, Absent, "r", Absent),
          Mcp("Response", k, Absent, Absent, Absent, "e")}
    ELSE {Mcp("Notification", AbsentId, "notifications/message", Absent, Absent, Absent),
          Mcp("Response", k, Absent, Absent, "r", Absent)}

\* What one write puts into the writer: a part of the JSON text of the k-th
\* message (write_all may take several writes for one text), or the line
\* terminator.
Piece(k, doc, part) == [k |-> k, doc |-> doc, part |-> part]
NewLine == [k |-> 0, part |-> "nl"]

NotWriting == [pc |-> "idle", k |-> 0, doc |-> EmptyLine]

\* Mutex::lock on the writer is granted when nobody holds the guard.
lock_granted_while_held(holder) == TRUE

lock_granted(holder) == holder = "free"

\* BufWriter: a write is kept in the buffer, or, when the buffer is full,
\* the buffer goes to standard output first.
BufWrite(piece, spill) ==
    IF spill
    THEN /\ wire' = wire \o writer.buf
         /\ writer' = [writer EXCEPT !.buf = <<piece>>]
    ELSE /\ wire' = wire
         /\ writer' = [writer EXCEPT !.buf = Append(@, piece)]

InitWriterIdle ==
    /\ writer = [holder |-> "free", buf |-> <<>>]
    /\ wire = <<>>
    /\ wtask = [t \in Writers |-> NotWriting]
    /\ wcalls = 0

\* write_message is entered (stdio.rs 46-50, called from line 128 or 199):
\* the message is serialized before the lock is asked for.
WriteCall(t) ==
    /\ wtask[t].pc = "idle"
    /\ wcalls < MaxWrites
    /\ wcalls' = wcalls + 1
    /\ \E m \in WriterMessages(t, wcalls + 1) :
           wtask' = [wtask EXCEPT ![t] =
                        [pc |-> "lock", k |-> wcalls + 1, doc |-> Encode(to_jsonrpc(m))]]
    /\ UNCHANGED <<writer, wire>>
    /\ UNCHANGED <<stdioVars, httpVars, call, metricsVars, mainVars>>

\* self.writer.lock().await (line 52).
WriteLock(t) ==
    /\ wtask[t].pc = "lock"
    /\ lock_granted(writer.holder)
    /\ writer' = [writer EXCEPT !.holder = t]
    /\ wtask' = [wtask EXCEPT ![t].pc = "text"]
    /\ UNCHANGED <<wire, wcalls>>
    /\ UNCHANGED <<stdioVars, httpVars, call, metricsVars, mainVars>>

\* writer.write_all(json_str.as_bytes()) (line 53), the first write of it.
WriteText(t) ==
    /\ wtask[t].pc = "text"
    /\ \E spill \in BOOLEAN : BufWrite(Piece(wtask[t].k, wtask[t].doc, "head"), spill)
    /\ wtask' = [wtask EXCEPT ![t].pc = "rest"]
    /\ UNCHANGED wcalls
    /\ UNCHANGED <<stdioVars, httpVars, call, metricsVars, mainVars>>

\* The same write_all, the rest of the text.
WriteRest(t) ==
    /\ wtask[t].pc = "rest"
    /\ \E spill \in BOOLEAN : BufWrite(Piece(wtask[t].k, wtask[t].doc, "tail"), spill)
    /\ wtask' = [wtask EXCEPT ![t].pc = "newline"]
    /\ UNCHANGED wcalls
    /\ UNCHANGED <<stdioVars, httpVars, call, metricsVars, mainVars>>

\* writer.write_all(b"\n") (line 55).
WriteNewline(t) ==
    /\ wtask[t].pc = "newline"
    /\ \E spill \in BOOLEAN : BufWrite(NewLine, spill)
    /\ wtask' = [wtask EXCEPT ![t].pc = "flush"]
    /\ UNCHANGED wcalls
    /\ UNCHANGED <<stdioVars, httpVars, call, metricsVars, mainVars>>

\* writer.flush() (line 57) and the return, which drops the guard.
WriteFlush(t) ==
    /\ wtask[t].pc = "flush"
    /\ wire' = wire \o writer.buf
    /\ writer' = [holder |-> "free", buf |-> <<>>]
    /\ wtask' = [wtask EXCEPT ![t] = NotWriting]
    /\ UNCHANGED wcalls
    /\ UNCHANGED <<stdioVars, httpVars, call, metricsVars, mainVars>>

\* Transport::shutdown (lines 187-191): flushes if try_lock gets the guard.
ShutdownFlush ==
    /\ shutdown_signal' = TRUE
    /\ IF writer.holder = "free"
       THEN /\ wire' = wire \o writer.buf
            /\ writer' = [writer EXCEPT !.buf = <<>>]
       ELSE UNCHANGED <<writer, wire>>
    /\ UNCHANGED <<wtask, wcalls>>
    /\ UNCHANGED <<pc, stdin, eof, consumed, stdout, sdInRead>>
    /\ UNCHANGED <<httpVars, call, metricsVars, mainVars>>

NextWriter ==
    \/ \E t \in Writers :
          \/ WriteCall(t)
          \/ WriteLock(t)
          \/ WriteText(t)
          \/ WriteRest(t)
          \/ WriteNewline(t)
          \/ WriteFlush(t)
    \/ ShutdownFlush

----------------------------------------------------------------------------
(* Metrics: the sample window of metrics/health.rs and the metrics middleware
   of transport/http.rs *)

WindowCapacity == 1000      \* "keep only last 1000"
MinuteSecs == 60            \* Duration::from_secs(60)

RequestMetrics_new == [response_times |-> <<>>, error_count |-> 0]

\* RequestMetrics::add_request, lines 171-173: the Instant of the request is
\* pushed and the Instants older than 60 s are dropped.
track(requests, now) ==
    SelectSeq(Append(requests, now), LAMBDA time : now - time <= MinuteSecs)

\* RequestMetrics::requests_per_minute.
requests_per_minute(requests) == Len(requests)

\* RequestMetrics::add_request, lines 157-169: the window and the error
\* count.
add_request_keeping_oldest(rm, response_time_ms, is_error) ==
    LET pushed == Append(rm.response_times, response_time_ms)
    IN [response_times |-> IF Len(pushed) > WindowCapacity
                           THEN SubSeq(pushed, 1, WindowCapacity) ELSE pushed,
        error_count |-> rm.error_count + (IF is_error THEN 1 ELSE 0)]

add_request(rm, response_time_ms, is_error) ==
    LET pushed == Append(rm.response_times, response_time_ms)
    IN [response_times |-> IF Len(pushed) > WindowCapacity
                           THEN Tail(pushed) ELSE pushed,
        error_count |-> rm.error_count + (IF is_error THEN 1 ELSE 0)]

\* No caller is inside record_request or get_performance_metrics, and the
\* lock is free.
NoWriter == 0

InitRecordersIdle ==
    /\ recorders = [t \in 1..MaxRecorders |-> [pc |-> "new", entered_at |-> 0]]
    /\ rw_lock = [writer |-> NoWriter, readers |-> {}]
    /\ readers = [q \in 1..MaxReaders |-> [pc |-> "new", total_requests |-> 0, samples |-> 0]]

InitMetrics ==
    /\ active_connections = 0
    /\ total_requests = 0
    /\ request_metrics = RequestMetrics_new
    /\ InitRecordersIdle
    /\ last_minute_requests = <<>>
    /\ clock = 0
    /\ recorded_at = <<>>
    /\ in_flight = [r \in 1..MaxRequests |->
                       [pc |-> "new", path |-> Absent, status |-> 0, samples |-> <<>>]]
    /\ recorded = <<>>

\* HealthMonitor::record_request.
record_request(response_time_ms, is_error) ==
    /\ total_requests' = total_requests + 1
    /\ request_metrics' = add_request(request_metrics, response_time_ms, is_error)
    /\ last_minute_requests' = track(last_minute_requests, clock)
    /\ recorded' = Append(recorded, response_time_ms)
    /\ recorded_at' = Append(recorded_at, clock)

\* StatusCode::is_client_error() || is_server_error() (http.rs 852).
is_error_status(status) == status >= 400 /\ status <= 599

\* The requests come in one after another.
NextRequest(r) ==
    /\ in_flight[r].pc = "new"
    /\ \A q \in 1..(r - 1) : in_flight[q].pc # "new"

\* The authentication layer is added to the router after the metrics layer
\* (http.rs 213-226) and so wraps it: a request it rejects is answered 401
\* without reaching metrics_middleware.
AuthRejects(r) ==
    /\ NextRequest(r)
    /\ in_flight' = [in_flight EXCEPT ![r].pc = "rejected", ![r].status = 401]
    /\ UNCHANGED <<active_connections, total_requests, request_metrics, recorded>>
    /\ UNCHANGED <<stdioVars, httpVars, writerVars, call, mainVars>>
    /\ UNCHANGED rateVars
    /\ UNCHANGED recordVars

\* metrics_middleware up to next.run(request) (http.rs 834-848): the request
\* is counted as active and handed on.
MetricsEnter(r) ==
    /\ NextRequest(r)
    /\ active_connections' = active_connections + 1
    /\ \E path \in {"/health", "/mcp/tools/evaluate"} :
          in_flight' = [in_flight EXCEPT ![r].pc = "running", ![r].path = path]
    /\ UNCHANGED <<total_requests, request_metrics, recorded>>
    /\ UNCHANGED <<stdioVars, httpVars, writerVars, call, mainVars>>
    /\ UNCHANGED rateVars
    /\ UNCHANGED recordVars

\* next.run returns a response (http.rs 851-853): the sample is recorded; for
\* a tool route the middleware then waits for the custom metrics (lines
\* 856-865), for any other route it goes on to the decrement (line 868).
MetricsHandlerReturns(r) ==
    /\ in_flight[r].pc = "running"
    /\ \E status \in {200, 400, 500}, response_time_ms \in {5, 50} :
          /\ record_request(response_time_ms, is_error_status(status))
          /\ in_flight' = [in_flight EXCEPT
                 ![r].pc = IF in_flight[r].path = "/mcp/tools/evaluate"
                           THEN "counting" ELSE "done",
                 ![r].status = status,
                 ![r].samples = Append(@, is_error_status(status))]
    /\ IF in_flight[r].path = "/mcp/tools/evaluate"
       THEN UNCHANGED active_connections
       ELSE active_connections' = active_connections - 1
    /\ UNCHANGED <<stdioVars, httpVars, writerVars, call, mainVars>>
    /\ UNCHANGED clock
    /\ UNCHANGED recordVars

\* increment_custom_metric has returned; the decrement (line 868).
MetricsCount(r) ==
    /\ in_flight[r].pc = "counting"
    /\ in_flight' = [in_flight EXCEPT ![r].pc = "done"]
    /\ active_connections' = active_connections - 1
    /\ UNCHANGED <<total_requests, request_metrics, recorded>>
    /\ UNCHANGED <<stdioVars, httpVars, writerVars, call, mainVars>>
    /\ UNCHANGED rateVars
    /\ UNCHANGED recordVars

\* The client goes away while the request is in flight: the future of the
\* request is dropped at the await it is waiting in.
MetricsCancel(r) ==
    /\ in_flight[r].pc \in {"running", "counting"}
    /\ in_flight' = [in_flight EXCEPT ![r].pc = "dropped"]
    /\ UNCHANGED <<active_connections, total_requests, request_metrics, recorded>>
    /\ UNCHANGED <<stdioVars, httpVars, writerVars, call, mainVars>>
    /\ UNCHANGED rateVars
    /\ UNCHANGED recordVars

\* The inner handler panics: the unwinding leaves next.run(request).await
\* and the middleware with it.
MetricsPanic(r) ==
    /\ in_flight[r].pc = "running"
    /\ in_flight' = [in_flight EXCEPT ![r].pc = "panicked"]
    /\ UNCHANGED <<active_connections, total_requests, request_metrics, recorded>>
    /\ UNCHANGED <<stdioVars, httpVars, writerVars, call, mainVars>>
    /\ UNCHANGED rateVars
    /\ UNCHANGED recordVars

NextMetrics ==
    \E r \in 1..MaxRequests :
        \/ AuthRejects(r)
        \/ MetricsEnter(r)
        \/ MetricsHandlerReturns(r)
        \/ MetricsCount(r)
        \/ MetricsCancel(r)
        \/ MetricsPanic(r)

\* RequestMetrics::error_rate_percent, in thousandths of a percent (the
\* quotient is an f64 in the code).
error_rate_percent(rm) ==
    IF rm.response_times = <<>> THEN 0
    ELSE (rm.error_count * 100 * 1000) \div Len(rm.response_times)

\* record_request called with one sample after another: the n-th sample
\* takes n milliseconds.  Either every request fails, or every tenth does:
\* which, is settled with the first sample.
RecordSample ==
    /\ Len(recorded) < MaxSamples
    /\ \E is_error \in BOOLEAN :
          /\ Len(recorded) > 0 =>
                 is_error = IF request_metrics.error_count = Len(recorded)
                            THEN TRUE
                            ELSE (Len(recorded) + 1) % 10 = 0
          /\ record_request(Len(recorded) + 1, is_error)
    /\ UNCHANGED <<active_connections, in_flight>>
    /\ UNCHANGED <<stdioVars, httpVars, writerVars, call, mainVars>>
    /\ UNCHANGED clock
    /\ UNCHANGED recordVars

NextWindow == RecordSample

----------------------------------------------------------------------------
(* The server binary: main of bin/octofhir-mcp.rs, lines 87-166. main starts
   the transports of the mode, then waits in one select! for the first of:
   a transport's start() returning, and the Ctrl+C future. *)

TransportModes == {"stdio", "http", "both"}

\* The transports main creates in a mode (lines 99, 118, 137-138).
TransportsOf(mode) ==
    CASE mode = "stdio" -> {"stdio"}
      [] mode = "http" -> {"http"}
      [] mode = "both" -> {"stdio", "http"}

\* The transports the branch `_ = shutdown_signal` calls shutdown() on:
\* the one transport of the modes stdio and http (lines 108-113, 127-132);
\* in the mode both the branch only logs (lines 157-160).
ShutdownOnSignal(mode) ==
    IF mode = "both" THEN {} ELSE TransportsOf(mode)

\* The transports whose start() has not returned.
RunningTransports ==
    {t \in TransportsOf(transport_mode) :
        \/ t = "stdio" /\ pc \in {"check", "read"}
        \/ t = "http" /\ http_task = "serving"}

\* The process runs: main has not returned.
NotExited == -1

\* The exit status of the process for what main returns: Ok(()) is 0, an
\* Err is 1 (std::process::Termination for Result).
ExitOk == 0
ExitErr == 1

\* main after the match (lines 162-170): every arm of the three modes falls
\* through to `Ok(())`, whatever start() returned; only the arm of an invalid
\* mode returns Err, and the value_parser of the CLI admits no such mode.
main_result(mode) == IF mode \in TransportModes THEN ExitOk ELSE ExitErr

\* No binary runs: the transports are driven as library objects.
InitMainIdle ==
    /\ transport_mode = "stdio"
    /\ main_pc = "start"
    /\ ctrl_c = FALSE
    /\ http_task = "new"
    /\ shutdown_calls = {}
    /\ winner = "none"
    /\ exit_status = NotExited

\* main reaches the select!: the transports' start() futures run up to their
\* first wait (spawned in the mode both, polled by the select! otherwise).
\* StdioTransport::start resets the flag and enters the loop;
\* HttpTransport::start binds and serves, or returns the bind error.
MainStart ==
    /\ main_pc = "start"
    /\ main_pc' = "select"
    /\ IF "stdio" \in TransportsOf(transport_mode)
       THEN /\ shutdown_signal' = FALSE
            /\ pc' = "check"
            /\ sdInRead' = FALSE
       ELSE UNCHANGED <<shutdown_signal, pc, sdInRead>>
    /\ IF "http" \in TransportsOf(transport_mode)
       THEN http_task' \in {"serving", "bind_failed"}
       ELSE UNCHANGED http_task
    /\ UNCHANGED <<stdin, eof, consumed, stdout>>
    /\ UNCHANGED <<transport_mode, ctrl_c, shutdown_calls, winner, exit_status>>
    /\ UNCHANGED <<httpVars, writerVars, call, metricsVars>>

\* signal::ctrl_c() completes, with Ok or Err (lines 88-93).
CtrlC ==
    /\ main_pc \in {"start", "select"}
    /\ ~ctrl_c
    /\ ctrl_c' = TRUE
    /\ UNCHANGED <<transport_mode, main_pc, http_task, shutdown_calls, winner,
                   exit_status>>
    /\ UNCHANGED <<stdioVars, httpVars, writerVars, call, metricsVars>>

\* axum::serve returns with an error while main waits.
HttpServeReturns ==
    /\ main_pc = "select"
    /\ http_task = "serving"
    /\ http_task' = "returned"
    /\ UNCHANGED <<transport_mode, main_pc, ctrl_c, shutdown_calls, winner,
                   exit_status>>
    /\ UNCHANGED <<stdioVars, httpVars, writerVars, call, metricsVars>>

\* The stdio transport and its client while main waits in the select!.
MainStdioStep ==
    /\ main_pc = "select"
    /\ "stdio" \in TransportsOf(transport_mode)
    /\ \/ ClientWrite(LineKinds)
       \/ ClientClose
       \/ LoopCheck
       \/ LoopRead

\* The select! runs the branch of a transport whose start() returned
\* (lines 102-107, 121-126, 155-156); main goes on to return.
SelectTransport ==
    /\ main_pc = "select"
    /\ RunningTransports # TransportsOf(transport_mode)
    /\ winner' = "transport"
    /\ main_pc' = "returned"
    /\ exit_status' = main_result(transport_mode)
    /\ UNCHANGED <<transport_mode, ctrl_c, http_task, shutdown_calls>>
    /\ UNCHANGED <<stdioVars, httpVars, writerVars, call, metricsVars>>

\* The select! runs the branch of the Ctrl+C future: it calls shutdown() on
\* the transports ShutdownOnSignal names, then main returns.
\* StdioTransport::shutdown sets the flag; HttpTransport::shutdown clears the
\* client map.
SelectSignal ==
    /\ main_pc = "select"
    /\ ctrl_c
    /\ winner' = "signal"
    /\ shutdown_calls' = shutdown_calls \cup ShutdownOnSignal(transport_mode)
    /\ IF "stdio" \in ShutdownOnSignal(transport_mode)
       THEN /\ shutdown_signal' = TRUE
            /\ sdInRead' = (sdInRead \/ pc = "read")
       ELSE UNCHANGED <<shutdown_signal, sdInRead>>
    /\ main_pc' = "returned"
    /\ exit_status' = main_result(transport_mode)
    /\ UNCHANGED <<pc, stdin, eof, consumed, stdout>>
    /\ UNCHANGED <<transport_mode, ctrl_c, http_task>>
    /\ UNCHANGED <<httpVars, writerVars, call, metricsVars>>

NextMain ==
    \/ MainStart
    \/ CtrlC
    \/ HttpServeReturns
    \/ MainStdioStep
    \/ SelectTransport
    \/ SelectSignal

----------------------------------------------------------------------------
(* Concurrent recording: HealthMonitor::record_request (health.rs 302-305)
   step by step, beside get_performance_metrics (lines 256-270).  The counter
   is an AtomicU64, the window sits in a std::sync::RwLock. *)

\* AtomicU64::fetch_add: one read-modify-write on the counter's current value,
\* whatever the counter was when the caller entered.
fetch_add_on_entry_value(current, entered_at, val) == entered_at + val

fetch_add(current, entered_at, val) == current + val

\* RwLock::write is granted when nobody holds the lock, RwLock::read when no
\* writer does.
write_granted(lock) == lock.writer = NoWriter /\ lock.readers = {}

read_granted(lock) == lock.writer = NoWriter

\* The sample a caller records: its own response time, not an error.
SampleOf(t) == 2000 + t

\* A caller enters record_request.
RecordCall(t) ==
    /\ recorders[t].pc = "new"
    /\ recorders' = [recorders EXCEPT ![t] = [pc |-> "count", entered_at |-> total_requests]]
    /\ UNCHANGED <<active_connections, total_requests, request_metrics, in_flight,
                   recorded, rw_lock, readers>>
    /\ UNCHANGED <<stdioVars, httpVars, writerVars, call, mainVars>>
    /\ UNCHANGED rateVars

\* Line 303: self.total_requests.fetch_add(1, Relaxed).
RecordCount(t) ==
    /\ recorders[t].pc = "count"
    /\ total_requests' = fetch_add(total_requests, recorders[t].entered_at, 1)
    /\ recorders' = [recorders EXCEPT ![t].pc = "lock"]
    /\ UNCHANGED <<active_connections, request_metrics, in_flight, recorded,
                   rw_lock, readers>>
    /\ UNCHANGED <<stdioVars, httpVars, writerVars, call, mainVars>>
    /\ UNCHANGED rateVars

\* Line 304: self.request_metrics.write() returns the guard.
RecordLock(t) ==
    /\ recorders[t].pc = "lock"
    /\ write_granted(rw_lock)
    /\ rw_lock' = [rw_lock EXCEPT !.writer = t]
    /\ recorders' = [recorders EXCEPT ![t].pc = "locked"]
    /\ UNCHANGED <<active_connections, total_requests, request_metrics, in_flight,
                   recorded, readers>>
    /\ UNCHANGED <<stdioVars, httpVars, writerVars, call, mainVars>>
    /\ UNCHANGED rateVars

\* Line 304: add_request under the guard, which is dropped at the end of the
\* statement.
RecordAdd(t) ==
    /\ recorders[t].pc = "locked"
    /\ request_metrics' = add_request(request_metrics, SampleOf(t), FALSE)
    /\ last_minute_requests' = track(last_minute_requests, clock)
    /\ recorded' = Append(recorded, SampleOf(t))
    /\ recorded_at' = Append(recorded_at, clock)
    /\ rw_lock' = [rw_lock EXCEPT !.writer = NoWriter]
    /\ recorders' = [recorders EXCEPT ![t].pc = "done"]
    /\ UNCHANGED <<active_connections, total_requests, in_flight, readers>>
    /\ UNCHANGED <<stdioVars, httpVars, writerVars, call, mainVars>>
    /\ UNCHANGED clock

\* get_performance_metrics, line 257: request_metrics.read() returns the guard.
ReadLock(q) ==
    /\ readers[q].pc = "new"
    /\ read_granted(rw_lock)
    /\ rw_lock' = [rw_lock EXCEPT !.readers = @ \cup {q}]
    /\ readers' = [readers EXCEPT ![q].pc = "reading"]
    /\ UNCHANGED <<active_connections, total_requests, request_metrics, in_flight,
                   recorded, recorders>>
    /\ UNCHANGED <<stdioVars, httpVars, writerVars, call, mainVars>>
    /\ UNCHANGED rateVars

\* Lines 260-269: the counter is loaded and the window read under the guard,
\* which is dropped when the function returns.
ReadReturn(q) ==
    /\ readers[q].pc = "reading"
    /\ readers' = [readers EXCEPT ![q] =
           [pc |-> "done", total_requests |-> total_requests,
            samples |-> Len(request_metrics.response_times)]]
    /\ rw_lock' = [rw_lock EXCEPT !.readers = @ \ {q}]
    /\ UNCHANGED <<active_connections, total_requests, request_metrics, in_flight,
                   recorded, recorders>>
    /\ UNCHANGED <<stdioVars, httpVars, writerVars, call, mainVars>>
    /\ UNCHANGED rateVars

NextRecorders ==
    \/ \E t \in 1..MaxRecorders :
          RecordCall(t) \/ RecordCount(t) \/ RecordLock(t) \/ RecordAdd(t)
    \/ \E q \in 1..MaxReaders : ReadLock(q) \/ ReadReturn(q)

----------------------------------------------------------------------------
(* The request rate: record_request and the reads of requests_per_minute
   as time passes (health.rs 171-174, 195-197) *)

ClockStep == 20           \* the clock is looked at every 20 s

\* A request completes now and is recorded.
RecordNow ==
    /\ Len(recorded_at) < MaxRated
    /\ record_request(5, FALSE)
    /\ UNCHANGED <<active_connections, in_flight, clock>>
    /\ UNCHANGED recordVars
    /\ UNCHANGED <<stdioVars, httpVars, writerVars, call, mainVars>>

\* Time passes; nothing in the monitor runs on its own.
ClockTick ==
    /\ clock < MaxClock
    /\ clock' = clock + ClockStep
    /\ UNCHANGED <<active_connections, total_requests, request_metrics, in_flight,
                   recorded, last_minute_requests, recorded_at>>
    /\ UNCHANGED recordVars
    /\ UNCHANGED <<stdioVars, httpVars, writerVars, call, mainVars>>

NextRate == RecordNow \/ ClockTick

----------------------------------------------------------------------------
(* The HTTP/SSE transport: security/auth.rs, transport/sse_auth.rs,
   transport/http.rs *)

MaxStreams == 2           \* streams opened in one behaviour
MaxMessages == 1          \* messages handed to the SSE channels in one behaviour

KeyPrefixLen == 8         \* &api_key[..8]
DefaultTimeout == 3600    \* timeout_seconds.unwrap_or(3600)

\* str::starts_with and str::strip_prefix (after a successful starts_with).
StartsWith(s, p) == Len(s) >= Len(p) /\ SubSeq(s, 1, Len(p)) = p

StripPrefix(s, p) == SubSeq(s, Len(p) + 1, Len(s))

\* AuthConfig as SecurityProvider::new builds it; NoProvider is
\* security_provider: None.
AuthConfig(enable_auth, api_keys, jwt_secret) ==
    [present |-> TRUE, enable_auth |-> enable_auth, api_keys |-> api_keys,
     jwt_secret |-> jwt_secret]

NoProvider ==
    [present |-> FALSE, enable_auth |-> FALSE, api_keys |-> {}, jwt_secret |-> Absent]

\* Result<AuthenticatedRequest>: Ok with the AuthMethod, its payload and the
\* subject; Err; or a panic that unwinds out of the call.
AuthOk(method, credential, subject) ==
    [tag |-> "ok", method |-> method, credential |-> credential, subject |-> subject]

AuthErr(msg) == [tag |-> "err", method |-> Absent, credential |-> Absent, subject |-> msg]

AuthPanic == [tag |-> "panic", method |-> Absent, credential |-> Absent, subject |-> Absent]

NoIdentity == [tag |-> "none", method |-> Absent, credential |-> Absent, subject |-> Absent]

\* The tokens in circulation: the secret each was signed with, its sub claim
\* and whether its exp claim is still in the future.  Anything else does not
\* decode.
IssuedJwts ==
    [t \in {"eyJ.alice", "eyJ.bob", "eyJ.expired", "eyJ.forged"} |->
        [secret |-> IF t = "eyJ.forged" THEN "other-secret" ELSE "s3cret",
         sub |-> SubSeq(t, 5, Len(t)),
         live |-> t # "eyJ.expired"]]

\* jsonwebtoken::decode with Validation::default(): signature and exp.
decode(token, jwt_secret) ==
    IF /\ token \in DOMAIN IssuedJwts
       /\ IssuedJwts[token].secret = jwt_secret
       /\ IssuedJwts[token].live
    THEN [ok |-> TRUE, sub |-> IssuedJwts[token].sub]
    ELSE [ok |-> FALSE, sub |-> Absent]

authenticate_api_key(cfg, api_key) ==
    IF ~cfg.enable_auth THEN AuthOk("Bypass", Absent, "local")
    ELSE IF api_key \in cfg.api_keys
         THEN IF Len(api_key) < KeyPrefixLen
              THEN AuthPanic          \* slice index out of range
              ELSE AuthOk("ApiKey", api_key,
                          "api_key:" \o SubSeq(api_key, 1, KeyPrefixLen))
         ELSE AuthErr("Invalid API key")

authenticate_jwt(cfg, token) ==
    IF ~cfg.enable_auth THEN AuthOk("Bypass", Absent, "local")
    ELSE IF cfg.jwt_secret = Absent THEN AuthErr("JWT secret not configured")
    ELSE LET token_data == decode(token, cfg.jwt_secret)
         IN IF token_data.ok THEN AuthOk("JwtToken", token, token_data.sub)
            ELSE AuthErr("JWT validation failed")

parse_authorization_header(cfg, auth_header) ==
    IF StartsWith(auth_header, "Bearer ")
    THEN LET bearer_token == StripPrefix(auth_header, "Bearer ")
         IN IF StartsWith(bearer_token, "eyJ")
            THEN authenticate_jwt(cfg, bearer_token)
            ELSE authenticate_api_key(cfg, bearer_token)
    ELSE AuthErr("Invalid authorization header format")

\* str::parse::<u64> on the timeout texts a client sends here.
ParseU64(t) ==
    CASE t = "30" -> 30
      [] t = "90" -> 90
      [] OTHER -> -1

\* The query string of a request to /sse.
Query(client_id, token, api_key, refresh_token, timeout) ==
    [client_id |-> client_id, token |-> token, api_key |-> api_key,
     refresh_token |-> refresh_token, timeout |-> timeout]

NoQuery == Query(Absent, Absent, Absent, Absent, Absent)

\* SseAuthParams; timeout is the parsed number, -1 for None.
extract_sse_params(query) ==
    [client_id |-> query.client_id, token |-> query.token, api_key |-> query.api_key,
     refresh_token |-> query.refresh_token,
     timeout |-> IF query.timeout = Absent THEN -1 ELSE ParseU64(query.timeout)]

\* SseConnection::new; last_activity is kept by the stream as an age.
SseConnection_new(client_id, authenticated_request, timeout, refresh_token) ==
    [present |-> TRUE, client_id |-> client_id,
     authenticated_request |-> authenticated_request,
     timeout_seconds |-> IF timeout < 0 THEN DefaultTimeout ELSE timeout,
     supports_refresh |-> refresh_token # Absent]

NoConnection ==
    [present |-> FALSE, client_id |-> Absent, authenticated_request |-> NoIdentity,
     timeout_seconds |-> 0, supports_refresh |-> FALSE]

try_header_auth(cfg, authorization) ==
    IF authorization = Absent THEN AuthErr("No Authorization header found")
    ELSE parse_authorization_header(cfg, authorization)

try_query_auth(cfg, params) ==
    IF params.token # Absent THEN authenticate_jwt(cfg, params.token)
    ELSE IF params.api_key # Absent THEN authenticate_api_key(cfg, params.api_key)
    ELSE AuthErr("No valid authentication credentials in query parameters")

\* Result<SseConnection, StatusCode>; uuid is what Uuid::new_v4 returns.
authenticate_sse_connection(cfg, authorization, query, uuid) ==
    LET sse_params == extract_sse_params(query)
        client_id == IF sse_params.client_id = Absent THEN uuid
                     ELSE sse_params.client_id
        by_header == try_header_auth(cfg, authorization)
        authenticated_request ==
            IF by_header.tag = "err" THEN try_query_auth(cfg, sse_params)
            ELSE by_header
    IN CASE authenticated_request.tag = "ok" ->
               [tag |-> "ok", status |-> 200,
                conn |-> SseConnection_new(client_id, authenticated_request,
                                           sse_params.timeout, sse_params.refresh_token)]
         [] authenticated_request.tag = "panic" ->
               [tag |-> "panic", status |-> 0, conn |-> NoConnection]
         [] OTHER ->
               [tag |-> "err", status |-> 401, conn |-> NoConnection]

\* An HTTP request: the route, the Authorization header and the query.
Request(method, path, authorization, query) ==
    [method |-> method, path |-> path, authorization |-> authorization,
     query |-> query]

NoRequest == Request(Absent, Absent, Absent, NoQuery)

\* What a middleware does with a request: run the rest of the chain (with the
\* extensions it inserted), answer itself, or panic.
MwNext(via, identity, conn) ==
    [tag |-> "next", status |-> 0, via |-> via, identity |-> identity, conn |-> conn]

MwReject(via, status) ==
    [tag |-> "reject", status |-> status, via |-> via, identity |-> NoIdentity,
     conn |-> NoConnection]

MwPanic(via) ==
    [tag |-> "panic", status |-> 0, via |-> via, identity |-> NoIdentity,
     conn |-> NoConnection]

handle_sse_authentication_passing_on_error(cfg, req, uuid) ==
    LET got == authenticate_sse_connection(cfg, req.authorization, req.query, uuid)
    IN CASE got.tag = "panic" -> MwPanic("sse_auth")
         [] OTHER -> MwNext("sse_auth", got.conn.authenticated_request, got.conn)

\* Query::try_from_uri into a HashMap<String, String> accepts every query
\* string, so the 400 of lines 801-805 is not among the outcomes.
handle_sse_authentication(cfg, req, uuid) ==
    LET got == authenticate_sse_connection(cfg, req.authorization, req.query, uuid)
    IN CASE got.tag = "ok" ->
               MwNext("sse_auth", got.conn.authenticated_request, got.conn)
         [] got.tag = "panic" -> MwPanic("sse_auth")
         [] OTHER -> MwReject("sse_auth", got.status)

security_auth_middleware(cfg, req, uuid) ==
    IF req.path = "/health" THEN MwNext("skipped", NoIdentity, NoConnection)
    ELSE IF req.path = "/sse" THEN handle_sse_authentication(cfg, req, uuid)
    ELSE IF req.authorization = Absent THEN MwReject("security", 401)
    ELSE LET authenticated_request ==
                 parse_authorization_header(cfg, req.authorization)
         IN CASE authenticated_request.tag = "ok" ->
                    MwNext("security", authenticated_request, NoConnection)
              [] authenticated_request.tag = "panic" -> MwPanic("security")
              [] OTHER -> MwReject("security", 401)

auth_middleware_attaching_connection(req) ==
    IF req.path = "/sse"
    THEN MwNext("skipped", NoIdentity,
                SseConnection_new("anonymous", NoIdentity, DefaultTimeout, Absent))
    ELSE IF req.path = "/health" THEN MwNext("skipped", NoIdentity, NoConnection)
    ELSE IF req.authorization # Absent /\ StartsWith(req.authorization, "Bearer ")
         THEN MwNext("legacy", NoIdentity, NoConnection)
         ELSE MwReject("legacy", 401)

\* The legacy middleware: any "Bearer " header passes, the token is not looked at.
auth_middleware(req) ==
    IF req.path = "/health" \/ req.path = "/sse"
    THEN MwNext("skipped", NoIdentity, NoConnection)
    ELSE IF req.authorization # Absent /\ StartsWith(req.authorization, "Bearer ")
         THEN MwNext("legacy", NoIdentity, NoConnection)
         ELSE MwReject("legacy", 401)

\* create_router, lines 219-227: which authentication layer wraps the routes.
auth_layer(cfg, req, uuid) ==
    IF cfg.auth_enabled
    THEN IF cfg.security_provider.present
         THEN security_auth_middleware(cfg.security_provider, req, uuid)
         ELSE auth_middleware(req)
    ELSE MwNext("none", NoIdentity, NoConnection)

\* The constructors of HttpTransport.
HttpTransport_new == [auth_enabled |-> FALSE, security_provider |-> NoProvider]

with_config(auth_enabled) ==
    [auth_enabled |-> auth_enabled, security_provider |-> NoProvider]

with_security(security_provider) ==
    [auth_enabled |-> security_provider.enable_auth,
     security_provider |-> security_provider]

\* The configured key set: one key of ordinary length, one shorter than the
\* prefix that the subject takes.
ApiKeys == {"key-alpha-0001", "key7"}

Providers ==
    {AuthConfig(e, ApiKeys, j) : e \in BOOLEAN, j \in {Absent, "s3cret"}}

Configs ==
    {HttpTransport_new, with_config(TRUE)} \cup {with_security(p) : p \in Providers}

SecureConfig == with_security(AuthConfig(TRUE, ApiKeys, "s3cret"))

RefreshCheckInterval == 60    \* refresh_check_interval
RecvTimeout == 30             \* timeout_duration
RefreshThreshold == 300       \* time_left.as_secs() <= 300
ChannelCapacity == 100        \* broadcast::channel(100)
MaxQuietTicks == 3            \* the history of a stream's quiet time stops growing here

\* An SseMessage: its event name and which message it is.
SseMessage(event, n) == [event |-> event, n |-> n]

\* An Event on the wire of a stream.
Event(event, n) == [event |-> event, n |-> n]

\* The stream that handle_sse_connection returns, with the receiver of its
\* channel.  pc is where the generator stands: "start" before the first poll,
\* "top" at the head of the loop, "recv" in the timed receive, "cleanup" after
\* the disconnected event, "ended" when it has run to its end, "dropped" when
\* the response body was dropped because the client went away.  Times are ages
\* in seconds; quiet is the history of the time since the last event in either
\* direction.
NewStream(conn) ==
    [client_id |-> conn.client_id,
     timeout_seconds |-> conn.timeout_seconds,
     supports_refresh |-> conn.supports_refresh,
     pc |-> "start", last_activity |-> 0, last_refresh_check |-> 0, waited |-> 0,
     quiet |-> 0, queue |-> <<>>, lagged |-> FALSE, events |-> <<>>]

ReceiverAlive(st) == st.pc \notin {"ended", "dropped"}

StreamOpen(st) == st.pc \in {"start", "top", "recv"}

Deliver_newest_first(st, msg) ==
    IF ~ReceiverAlive(st) THEN st
    ELSE IF Len(st.queue) < ChannelCapacity
         THEN [st EXCEPT !.queue = <<msg>> \o @]
         ELSE [st EXCEPT !.queue = <<msg>> \o SubSeq(@, 1, Len(@) - 1), !.lagged = TRUE]

\* broadcast::Sender::send on the channel of stream st: the receiver, if it is
\* still there, finds the message in its queue; a full queue loses its oldest
\* message and the receiver is told that it lagged.
Deliver(st, msg) ==
    IF ~ReceiverAlive(st) THEN st
    ELSE IF Len(st.queue) < ChannelCapacity
         THEN [st EXCEPT !.queue = Append(@, msg)]
         ELSE [st EXCEPT !.queue = Append(Tail(@), msg), !.lagged = TRUE]

EmptyRegistry == [c \in {} |-> 0]

\* HashMap::insert and HashMap::remove on sse_clients.
Insert(clients, client_id, channel) ==
    [c \in DOMAIN clients \cup {client_id} |->
        IF c = client_id THEN channel ELSE clients[c]]

Remove(clients, client_id) ==
    [c \in DOMAIN clients \ {client_id} |-> clients[c]]

\* The channels whose sender the registry holds.
Registered(clients) == {clients[c] : c \in DOMAIN clients}

\* HttpTransport::send_sse_message to one client.
send_sse_message(clients, sts, client_id, msg) ==
    IF client_id \in DOMAIN clients
    THEN [sts EXCEPT ![clients[client_id]] = Deliver(@, msg)]
    ELSE sts

\* The statuses a route handler can return once it runs; what it computes is
\* outside this model.  The stream handler's status follows from the request
\* extensions and is computed in HttpRequest.
HandlerOutcomes(req) ==
    CASE req.path = "/mcp/tools/evaluate" -> {200, 400, 500}
      [] req.path = "/mcp/tools/list" -> {200, 500}
      [] req.path = "/sse" /\ req.method = "POST" -> {200, 204, 400, 500}
      [] req.path = "/health" -> {200, 503}
      [] req.path = "/ready" -> {200, 503}
      [] req.path = "/metrics" -> {200, 404}
      [] req.path = "/stats" -> {200, 404}
      [] OTHER -> {200}

\* What became of a request: the middleware that decided, the identity it put
\* into the request extensions, whether the route handler ran, and the status
\* (outcome "panic": the task unwound and no response was written).
Response(req, via, identity, handler_ran, status, outcome) ==
    [req |-> req, via |-> via, identity |-> identity, handler_ran |-> handler_ran,
     status |-> status, outcome |-> outcome]

NoResponse == Response(NoRequest, "none", NoIdentity, FALSE, 0, "none")

InitHttpIdle ==
    /\ sse_clients = EmptyRegistry
    /\ streams = <<>>
    /\ resp = NoResponse
    /\ published = 0

\* One request through the router: the authentication layer, then the route
\* handler.  handle_sse_connection opens a stream when the extensions hold an
\* SseConnection and answers 500 otherwise; handle_sse_message pushes the reply
\* of the message handler to the client named in the query.
HttpRequest(requests) ==
    /\ \E req \in requests : \E h \in HandlerOutcomes(req) :
        LET uuid == "uuid-" \o ToString(Len(streams) + 1)
            mw == auth_layer(config, req, uuid)
            ran == mw.tag = "next"
            opens == ran /\ req.path = "/sse" /\ req.method = "GET" /\ mw.conn.present
            pushes == ran /\ req.path = "/sse" /\ req.method = "POST" /\ h = 200
            target == IF req.query.client_id = Absent THEN "default"
                      ELSE req.query.client_id
            status == CASE ~ran -> mw.status
                        [] req.path = "/sse" /\ req.method = "GET" ->
                               IF mw.conn.present THEN 200 ELSE 500
                        [] OTHER -> h
        IN /\ opens => Len(streams) < MaxStreams
           /\ pushes => published < MaxMessages
           /\ resp' = Response(req, mw.via, mw.identity, ran, status,
                               IF mw.tag = "panic" THEN "panic" ELSE "response")
           /\ streams' =
                 IF opens THEN Append(streams, NewStream(mw.conn))
                 ELSE IF pushes
                      THEN send_sse_message(sse_clients, streams, target,
                                            SseMessage("response", published + 1))
                      ELSE streams
           /\ sse_clients' =
                 IF opens THEN Insert(sse_clients, mw.conn.client_id, Len(streams) + 1)
                 ELSE sse_clients
           /\ published' = IF pushes THEN published + 1 ELSE published
    /\ UNCHANGED config
    /\ UNCHANGED stdioVars
    /\ UNCHANGED <<writerVars, call, metricsVars, mainVars>>

\* Transport::shutdown of the HTTP transport: the registry is emptied (the
\* legacy token table holds nothing in this model).
TransportShutdown ==
    /\ sse_clients # EmptyRegistry
    /\ sse_clients' = EmptyRegistry
    /\ UNCHANGED <<config, streams, resp, published>>
    /\ UNCHANGED stdioVars
    /\ UNCHANGED <<writerVars, call, metricsVars, mainVars>>

\* The credentials a client presents.
Headers ==
    {Absent, "Basic dXNlcg==", "Bearer eyJ.alice", "Bearer eyJ.forged",
     "Bearer key-alpha-0001", "Bearer key7", "Bearer key-unknown-99"}

QueryTokens == {Absent, "eyJ.bob", "eyJ.expired"}

QueryApiKeys == {Absent, "key-alpha-0001", "key7", "key-unknown-99"}

PlainRoutes ==
    {<<"POST", "/mcp/tools/evaluate">>, <<"GET", "/mcp/tools/list">>,
     <<"GET", "/health">>, <<"GET", "/ready">>, <<"GET", "/metrics">>,
     <<"GET", "/stats">>, <<"GET", "/sse/auth-info">>}

\* Every route under every Authorization header; requests to the stream
\* endpoint name the client c1 and carry no credential in the query.
RouterRequests ==
    {Request(r[1], r[2], a, NoQuery) : r \in PlainRoutes, a \in Headers}
    \cup {Request(m, "/sse", a, Query("c1", Absent, Absent, Absent, Absent)) :
            m \in {"GET", "POST"}, a \in Headers}

\* GET on the stream endpoint under every combination of the three credentials.
SseAuthRequests ==
    {Request("GET", "/sse", a, Query(c, t, k, Absent, Absent)) :
        a \in Headers, c \in {Absent, "c1"}, t \in QueryTokens, k \in QueryApiKeys}

InitHttp ==
    /\ pc = "idle" /\ shutdown_signal = FALSE /\ stdin = <<>> /\ eof = FALSE
    /\ consumed = <<>> /\ stdout = <<>> /\ sdInRead = FALSE
    /\ config \in Configs
    /\ InitHttpIdle
    /\ InitWriterIdle
    /\ call = NoCall
    /\ InitMetrics
    /\ InitMainIdle

NextHttp ==
    \/ HttpRequest(RouterRequests)
    \/ TransportShutdown

\* The router under every configuration; the streams it opens are not yet
\* polled.
HttpSpec == InitHttp /\ [][NextHttp]_vars

NextSseAuth ==
    \/ HttpRequest(SseAuthRequests)
    \/ TransportShutdown

\* The same router, asked only to open streams.
SseAuthSpec == InitHttp /\ [][NextSseAuth]_vars

----------------------------------------------------------------------------
(* The stream of handle_sse_connection and what acts on it *)

RefreshLogCap == 2        \* token_refresh events a stream's history keeps

\* SseConnection::is_expired, update_activity, time_until_expiry (-1: None)
\* on the connection a stream owns; as_secs() is the whole seconds of the age.
is_expired(st) == st.last_activity > st.timeout_seconds

update_activity(st) == [st EXCEPT !.last_activity = 0]

time_until_expiry(st) ==
    IF st.last_activity < st.timeout_seconds
    THEN st.timeout_seconds - st.last_activity
    ELSE -1

create_refresh_event_without_token(st) ==
    /\ time_until_expiry(st) >= 0
    /\ time_until_expiry(st) <= RefreshThreshold

\* SseAuthenticator::create_refresh_event: is there an event to send.
create_refresh_event(st) ==
    /\ st.supports_refresh
    /\ time_until_expiry(st) >= 0
    /\ time_until_expiry(st) <= RefreshThreshold

\* SseAuthenticator::validate_connection: the connection after the call and
\* whether it returned Ok.
validate_connection(st) ==
    LET connection == update_activity(st)
    IN [connection |-> connection, ok |-> ~is_expired(connection)]

\* yield: the event goes out on the stream.
Emit(st, event) ==
    LET refreshes == Len(SelectSeq(st.events, LAMBDA e : e.event = "token_refresh"))
    IN [st EXCEPT !.quiet = 0,
                  !.events = IF event.event = "token_refresh" /\ refreshes >= RefreshLogCap
                             THEN @ ELSE Append(@, event)]

\* The first poll of the stream: the connected event, then the loop.
StreamStart(s) ==
    /\ s \in DOMAIN streams
    /\ streams[s].pc = "start"
    /\ streams' = [streams EXCEPT ![s] =
           [Emit(@, Event("connected", 0)) EXCEPT !.last_refresh_check = 0, !.pc = "top"]]
    /\ UNCHANGED <<config, sse_clients, resp, published>>
    /\ UNCHANGED stdioVars
    /\ UNCHANGED <<writerVars, call, metricsVars, mainVars>>

\* Lines 504-523: the periodic check.  An expired connection gets auth_error,
\* the loop breaks and the disconnected event follows.
StreamTop(s) ==
    /\ s \in DOMAIN streams
    /\ streams[s].pc = "top"
    /\ LET st == streams[s]
           checked == validate_connection(st)
           after ==
               IF st.last_refresh_check >= RefreshCheckInterval
               THEN IF config.security_provider.present
                    THEN IF checked.ok
                         THEN [(IF create_refresh_event(checked.connection)
                                THEN Emit(checked.connection, Event("token_refresh", 0))
                                ELSE checked.connection)
                               EXCEPT !.last_refresh_check = 0, !.pc = "recv", !.waited = 0]
                         ELSE [Emit(Emit(checked.connection, Event("auth_error", 0)),
                                    Event("disconnected", 0))
                               EXCEPT !.pc = "cleanup"]
                    ELSE [st EXCEPT !.last_refresh_check = 0, !.pc = "recv", !.waited = 0]
               ELSE [st EXCEPT !.pc = "recv", !.waited = 0]
       IN streams' = [streams EXCEPT ![s] = after]
    /\ UNCHANGED <<config, sse_clients, resp, published>>
    /\ UNCHANGED stdioVars
    /\ UNCHANGED <<writerVars, call, metricsVars, mainVars>>

\* Lines 525-551: the timed receive returns with a message, with Lagged, with
\* Closed once no sender is left, or with the timeout.
StreamRecv(s) ==
    /\ s \in DOMAIN streams
    /\ streams[s].pc = "recv"
    /\ LET st == streams[s]
       IN \/ /\ st.lagged
             /\ streams' = [streams EXCEPT ![s] = [st EXCEPT !.lagged = FALSE, !.pc = "top"]]
          \/ /\ ~st.lagged
             /\ st.queue # <<>>
             /\ streams' = [streams EXCEPT ![s] =
                    [Emit(update_activity(st), Event(Head(st.queue).event, Head(st.queue).n))
                     EXCEPT !.queue = Tail(@), !.pc = "top"]]
          \/ /\ ~st.lagged
             /\ st.queue = <<>>
             /\ s \notin Registered(sse_clients)
             /\ streams' = [streams EXCEPT ![s] =
                    [Emit(st, Event("disconnected", 0)) EXCEPT !.pc = "cleanup"]]
          \/ /\ ~st.lagged
             /\ st.queue = <<>>
             /\ s \in Registered(sse_clients)
             /\ st.waited >= RecvTimeout
             /\ streams' = [streams EXCEPT ![s] = [st EXCEPT !.pc = "top"]]
    /\ UNCHANGED <<config, sse_clients, resp, published>>
    /\ UNCHANGED stdioVars
    /\ UNCHANGED <<writerVars, call, metricsVars, mainVars>>

\* Line 562: the generator removes the entry of its client_id and ends.
StreamCleanup(s) ==
    /\ s \in DOMAIN streams
    /\ streams[s].pc = "cleanup"
    /\ sse_clients' = Remove(sse_clients, streams[s].client_id)
    /\ streams' = [streams EXCEPT ![s].pc = "ended"]
    /\ UNCHANGED <<config, resp, published>>
    /\ UNCHANGED stdioVars
    /\ UNCHANGED <<writerVars, call, metricsVars, mainVars>>

\* The client closes the connection: the response body, and the generator in
\* it, is dropped where it stands; the code after its loop does not run.
ClientDisconnect(s) ==
    /\ s \in DOMAIN streams
    /\ streams[s].pc \in {"start", "top", "recv", "cleanup"}
    /\ streams' = [streams EXCEPT ![s].pc = "dropped"]
    /\ UNCHANGED <<config, sse_clients, resp, published>>
    /\ UNCHANGED stdioVars
    /\ UNCHANGED <<writerVars, call, metricsVars, mainVars>>

send_message_stopping_on_error(events) ==
    /\ published < MaxMessages
    /\ \E event \in events :
        streams' = [k \in DOMAIN streams |->
                       IF /\ k \in Registered(sse_clients)
                          /\ \A j \in Registered(sse_clients) : ReceiverAlive(streams[j])
                       THEN Deliver(streams[k], SseMessage(event, published + 1))
                       ELSE streams[k]]
    /\ published' = published + 1
    /\ UNCHANGED <<config, sse_clients, resp>>
    /\ UNCHANGED stdioVars
    /\ UNCHANGED <<writerVars, call, metricsVars, mainVars>>

\* Transport::send_message of the HTTP transport: the message goes to every
\* sender in the registry.
send_message_within(events, limit) ==
    /\ published < limit
    /\ \E event \in events :
        streams' = [k \in DOMAIN streams |->
                       IF k \in Registered(sse_clients)
                       THEN Deliver(streams[k], SseMessage(event, published + 1))
                       ELSE streams[k]]
    /\ published' = published + 1
    /\ UNCHANGED <<config, sse_clients, resp>>
    /\ UNCHANGED stdioVars
    /\ UNCHANGED <<writerVars, call, metricsVars, mainVars>>

\* send_message while fewer than MaxMessages messages have been sent.
send_message(events) == send_message_within(events, MaxMessages)

\* A stream that has nothing to do until the receive times out.
Waiting(s) ==
    /\ streams[s].pc = "recv"
    /\ ~streams[s].lagged
    /\ streams[s].queue = <<>>
    /\ s \in Registered(sse_clients)
    /\ streams[s].waited < RecvTimeout

\* RecvTimeout seconds pass.  The polls of a stream take no time: time passes
\* only while every stream that is still polled waits in its receive.
Tick ==
    /\ \E s \in DOMAIN streams : ReceiverAlive(streams[s])
    /\ \A s \in DOMAIN streams : ReceiverAlive(streams[s]) => Waiting(s)
    /\ streams' = [s \in DOMAIN streams |->
           IF ReceiverAlive(streams[s])
           THEN [streams[s] EXCEPT
                    !.last_activity = @ + RecvTimeout,
                    !.last_refresh_check = @ + RecvTimeout,
                    !.waited = @ + RecvTimeout,
                    !.quiet = IF @ + RecvTimeout > MaxQuietTicks * RecvTimeout
                              THEN MaxQuietTicks * RecvTimeout ELSE @ + RecvTimeout]
           ELSE streams[s]]
    /\ UNCHANGED <<config, sse_clients, resp, published>>
    /\ UNCHANGED stdioVars
    /\ UNCHANGED <<writerVars, call, metricsVars, mainVars>>

\* Authenticated GETs on the stream endpoint with a short timeout: one that
\* leaves the client id to the server, one that names itself c1 and brings a
\* refresh token.
SseRequests ==
    {Request("GET", "/sse", "Bearer eyJ.alice",
             Query(Absent, Absent, Absent, Absent, "30")),
     Request("GET", "/sse", "Bearer eyJ.alice",
             Query("c1", Absent, Absent, "refresh-1", "30"))}

\* The event name send_message gives to a Notification.
SseEvents == {"notification"}

InitSse ==
    /\ pc = "idle" /\ shutdown_signal = FALSE /\ stdin = <<>> /\ eof = FALSE
    /\ consumed = <<>> /\ stdout = <<>> /\ sdInRead = FALSE
    /\ config = SecureConfig
    /\ InitHttpIdle
    /\ InitWriterIdle
    /\ call = NoCall
    /\ InitMetrics
    /\ InitMainIdle

NextSse ==
    \/ HttpRequest(SseRequests)
    \/ TransportShutdown
    \/ send_message(SseEvents)
    \/ \E s \in 1..MaxStreams : ClientDisconnect(s)
    \/ \E s \in 1..MaxStreams : StreamStart(s)
    \/ \E s \in 1..MaxStreams : StreamTop(s)
    \/ \E s \in 1..MaxStreams : StreamRecv(s)
    \/ \E s \in 1..MaxStreams : StreamCleanup(s)
    \/ Tick

StreamStep(s) == StreamStart(s) \/ StreamTop(s) \/ StreamRecv(s) \/ StreamCleanup(s)

\* Each stream is polled by the connection task for as long as the client is
\* there, and time passes.
FairSseSpec ==
    /\ InitSse
    /\ [][NextSse]_vars
    /\ \A s \in 1..MaxStreams : WF_vars(StreamStep(s))
    /\ WF_vars(Tick)

MaxBurst == 102           \* messages sent in one behaviour of BurstSpec

\* One client connects, without a refresh token; then send_message may run
\* ahead of the stream by more than the channel holds, for as long as the
\* stream is registered.  The burst is over before the first receive timeout:
\* no time passes.
BurstRequests ==
    {Request("GET", "/sse", "Bearer eyJ.alice",
             Query(Absent, Absent, Absent, Absent, "30"))}

\* The stream is registered and its receiver is there.
Listening ==
    /\ streams # <<>>
    /\ 1 \in Registered(sse_clients)
    /\ ReceiverAlive(streams[1])

NextBurst ==
    \/ (streams = <<>> /\ HttpRequest(BurstRequests))
    \/ TransportShutdown
    \/ (Listening /\ send_message_within(SseEvents, MaxBurst))
    \/ ClientDisconnect(1)
    \/ StreamStart(1)
    \/ StreamTop(1)
    \/ StreamRecv(1)
    \/ StreamCleanup(1)

BurstSpec == InitSse /\ [][NextBurst]_vars

----------------------------------------------------------------------------
(* The Authenticator called directly (security/auth.rs 52-129) *)

\* The configurations an Authenticator is built with.
AuthConfigs ==
    {AuthConfig(e, ks, j) :
        e \in BOOLEAN,
        ks \in {{}, {"key-alpha-0001"}, {"key7"}, {"key-8chr"}, ApiKeys},
        j \in {Absent, "s3cret"}}

PresentedKeys == {"", "key7", "key-8chr", "key-alpha-0001", "key-unknown-99"}

PresentedTokens == {"", "eyJ.alice", "eyJ.expired", "eyJ.forged", "eyJ.unknown"}

PresentedHeaders == (Headers \ {Absent}) \cup {"", "bearer key7", "Bearer "}

CallAuthenticateApiKey ==
    /\ \E cfg \in AuthConfigs, api_key \in PresentedKeys :
          call' = [op |-> "authenticate_api_key", arg |-> api_key, mid |-> cfg,
                   ret |-> authenticate_api_key(cfg, api_key)]
    /\ UNCHANGED <<stdioVars, httpVars, writerVars, metricsVars, mainVars>>

CallAuthenticateJwt ==
    /\ \E cfg \in AuthConfigs, token \in PresentedTokens :
          call' = [op |-> "authenticate_jwt", arg |-> token, mid |-> cfg,
                   ret |-> authenticate_jwt(cfg, token)]
    /\ UNCHANGED <<stdioVars, httpVars, writerVars, metricsVars, mainVars>>

CallParseAuthorizationHeader ==
    /\ \E cfg \in AuthConfigs, auth_header \in PresentedHeaders :
          call' = [op |-> "parse_authorization_header", arg |-> auth_header, mid |-> cfg,
                   ret |-> parse_authorization_header(cfg, auth_header)]
    /\ UNCHANGED <<stdioVars, httpVars, writerVars, metricsVars, mainVars>>

NextAuth ==
    \/ CallAuthenticateApiKey
    \/ CallAuthenticateJwt
    \/ CallParseAuthorizationHeader

----------------------------------------------------------------------------
(* The bodies of the mutating routes: security/validation.rs and the handlers
   handle_tool_call and handle_sse_message of http.rs *)

MaxExpressionLength == 1000     \* ValidationConfig.max_expression_length
MaxExpressionDepth == 10        \* ValidationConfig.max_expression_depth
MaxResourceSize == 1048576      \* ValidationConfig.max_resource_size

SanitizedMessage == "Request validation failed"

\* A member of the arguments of a tool call.  kind: "absent", "string" (with
\* its length, its nesting depth as calculate_expression_depth counts it, and
\* whether it contains a blacklisted name), "object" (with the length of its
\* JSON text and whether validate_json_structure accepts it), "other" (any
\* other JSON value).
NoMember == [kind |-> "absent", len |-> 0, depth |-> 0, banned |-> FALSE, sound |-> TRUE]
OtherValue == [kind |-> "other", len |-> 1, depth |-> 0, banned |-> FALSE, sound |-> TRUE]
StringValue(len, depth, banned) ==
    [kind |-> "string", len |-> len, depth |-> depth, banned |-> banned, sound |-> TRUE]
ObjectValue(len, sound) ==
    [kind |-> "object", len |-> len, depth |-> 0, banned |-> FALSE, sound |-> sound]

Ok == [ok |-> TRUE, msg |-> ""]
Err(msg) == [ok |-> FALSE, msg |-> msg]

\* InputValidator::validate_fhirpath_expression.
validate_fhirpath_expression(expression) ==
    IF expression.len > MaxExpressionLength THEN Err("FHIRPath expression too long")
    ELSE IF expression.len = 0 THEN Err("FHIRPath expression cannot be empty")
    ELSE IF expression.depth > MaxExpressionDepth
        THEN Err("FHIRPath expression too complex")
    ELSE IF expression.banned
        THEN Err("FHIRPath expression contains blacklisted function")
    ELSE Ok

\* InputValidator::validate_fhir_resource.
validate_fhir_resource(resource) ==
    IF resource.len > MaxResourceSize THEN Err("FHIR resource too large")
    ELSE IF resource.kind # "object" THEN Err("FHIR resource must be a JSON object")
    ELSE IF ~resource.sound THEN Err("JSON structure refused")
    ELSE Ok

\* RequestSanitizer::sanitize_error_message with expose_details false.
sanitize_error_message(error) == SanitizedMessage

\* McpToolRequest.arguments: None, or a JSON value with (possibly) the
\* members expression and resource.
Arguments(present, expression, resource) ==
    [present |-> present, expression |-> expression, resource |-> resource]

NoArguments == Arguments(FALSE, NoMember, NoMember)

\* What a route handler returns: the status, the error text of the body and
\* whether state.handler.handle_message was called.
Handled(status, error, invoked) == [status |-> status, error |-> error, invoked |-> invoked]

\* The status a handler makes of the result of handle_message: "reply" is
\* Ok(Some(response)), "none" Ok(None), "err" Err.
ToolCallStatus(h) == IF h = "reply" THEN 200 ELSE 500

\* handle_tool_call (http.rs 334-383).
handle_tool_call(transport, arguments, h) ==
    LET expression == arguments.expression
        resource == arguments.resource
        checks == transport.security_provider.present /\ arguments.present
    IN IF /\ checks
          /\ expression.kind = "string"
          /\ ~validate_fhirpath_expression(expression).ok
       THEN Handled(400, sanitize_error_message(validate_fhirpath_expression(expression).msg),
                    FALSE)
       ELSE IF /\ checks
               /\ resource.kind # "absent"
               /\ ~validate_fhir_resource(resource).ok
       THEN Handled(400, sanitize_error_message(validate_fhir_resource(resource).msg), FALSE)
       ELSE Handled(ToolCallStatus(h), IF h = "reply" THEN "" ELSE "No response generated",
                    TRUE)

\* handle_sse_message (http.rs 569-626): the body is decoded and translated,
\* and the message handed to the handler; the arguments are not looked at.
handle_sse_message(transport, line, arguments, h) ==
    LET env == Decode(line) IN
    IF env.variant = "DecodeError" THEN Handled(400, "", FALSE)
    ELSE IF from_jsonrpc(env).variant = "Err" THEN Handled(400, "", FALSE)
    ELSE LET reply == handle_message(from_jsonrpc(env), TRUE)
         IN IF h = "err" THEN Handled(500, "", TRUE)
            ELSE IF reply = NoReply THEN Handled(204, "", TRUE)
            ELSE Handled(200, "", TRUE)

\* The expressions and resources a client sends.
Expressions ==
    {NoMember, OtherValue, StringValue(0, 0, FALSE)}
    \cup {StringValue(len, depth, banned) :
            len \in {12, MaxExpressionLength, MaxExpressionLength + 1},
            depth \in {0, MaxExpressionDepth, MaxExpressionDepth + 1},
            banned \in BOOLEAN}

Resources ==
    {NoMember, OtherValue}
    \cup {ObjectValue(len, sound) :
            len \in {40, MaxResourceSize, MaxResourceSize + 1}, sound \in BOOLEAN}

Bodies ==
    {NoArguments} \cup {Arguments(TRUE, e, r) : e \in Expressions, r \in Resources}

BodyTransports ==
    {HttpTransport_new, with_security(AuthConfig(FALSE, {}, Absent)), SecureConfig}

\* POST /mcp/tools/{tool_name} reaches its handler (one request in a
\* behaviour: the handlers keep nothing between requests).
CallHandleToolCall ==
    /\ call = NoCall
    /\ \E transport \in BodyTransports, arguments \in Bodies, h \in {"reply", "none", "err"} :
          call' = [op |-> "handle_tool_call", arg |-> arguments, mid |-> transport,
                   ret |-> handle_tool_call(transport, arguments, h)]
    /\ UNCHANGED <<stdioVars, httpVars, writerVars, metricsVars, mainVars>>

\* POST /sse reaches its handler with a tools/call request (or another line)
\* as its body.
CallHandleSseMessage ==
    /\ call = NoCall
    /\ \E transport \in BodyTransports, arguments \in Bodies, h \in {"reply", "err"},
          kind \in {"tools/call", "garbage", "unknown-method"} :
          call' = [op |-> "handle_sse_message", arg |-> arguments, mid |-> transport,
                   ret |-> handle_sse_message(transport, LineOf(kind, 1), arguments, h)]
    /\ UNCHANGED <<stdioVars, httpVars, writerVars, metricsVars, mainVars>>

NextBody ==
    \/ CallHandleToolCall
    \/ CallHandleSseMessage

----------------------------------------------------------------------------
(* Health and readiness: metrics/health.rs, metrics/mod.rs and the handlers
   handle_health_check and handle_readiness_check of http.rs *)

HealthStatuses == {"Healthy", "Degraded", "Unhealthy"}

\* HealthStatus::is_healthy.
is_healthy(status) == status = "Healthy"

\* The checks that run_system_health_checks writes, and one that only
\* update_health_check registers.
SystemChecks == {"fhirpath_library", "memory_usage"}
CheckNames == SystemChecks \cup {"custom"}

\* HealthMonitor.health_checks: a map from the names registered so far to
\* the status of each.
CheckMaps == UNION {[names -> HealthStatuses] : names \in SUBSET CheckNames}

\* HealthMonitor::calculate_overall_status.
calculate_overall_status_first_found(checks) ==
    IF \E n \in DOMAIN checks : ~is_healthy(checks[n])
    THEN IF \E n \in DOMAIN checks : checks[n] = "Degraded"
         THEN "Degraded" ELSE "Unhealthy"
    ELSE "Healthy"

calculate_overall_status(checks) ==
    IF \E n \in DOMAIN checks : ~is_healthy(checks[n])
    THEN IF \E n \in DOMAIN checks : checks[n] = "Unhealthy"
         THEN "Unhealthy" ELSE "Degraded"
    ELSE "Healthy"

\* HealthMonitor::run_system_health_checks: every system check is written
\* with the status it finds.
run_system_health_checks(checks, found) ==
    [n \in DOMAIN checks \cup SystemChecks |->
        IF n \in SystemChecks THEN found[n] ELSE checks[n]]

\* The status code handle_health_check gives to an aggregate status.
health_status_code_strict(status) == IF status = "Healthy" THEN 200 ELSE 503

health_status_code(status) == IF status = "Unhealthy" THEN 503 ELSE 200

\* handle_health_check (http.rs 629-647) with MetricsProvider::get_health_status
\* (mod.rs 50-58) and HealthMonitor::get_health_status (health.rs 230-243).
\* Without a metrics provider the body says "healthy".
handle_health_check(provider, enable_health_checks, checks, found) ==
    IF provider
    THEN LET now == IF enable_health_checks THEN run_system_health_checks(checks, found)
                    ELSE checks
             overall_status == calculate_overall_status(now)
         IN [status_code |-> health_status_code(overall_status),
             status |-> overall_status, ready |-> FALSE, checks |-> now]
    ELSE [status_code |-> 200, status |-> "Healthy", ready |-> FALSE, checks |-> checks]

\* HealthMonitor::get_readiness_status (health.rs 245-254).
ready_tolerating_degraded(checks) == \A n \in DOMAIN checks : checks[n] # "Unhealthy"

ready(checks) == \A n \in DOMAIN checks : is_healthy(checks[n])

\* handle_readiness_check (http.rs 650-668).
handle_readiness_check(provider, checks) ==
    IF provider
    THEN [status_code |-> IF ready(checks) THEN 200 ELSE 503,
          status |-> "", ready |-> ready(checks), checks |-> checks]
    ELSE [status_code |-> 200, status |-> "", ready |-> TRUE, checks |-> checks]

EmptyChecks == [n \in {} |-> "Healthy"]

\* With no metrics provider there is no HealthMonitor and no check.
ChecksOf(provider) == IF provider THEN CheckMaps ELSE {EmptyChecks}

CallCalculateOverallStatus ==
    /\ call = NoCall
    /\ \E checks \in CheckMaps :
          call' = [op |-> "calculate_overall_status", arg |-> checks, mid |-> TRUE,
                   ret |-> calculate_overall_status(checks)]
    /\ UNCHANGED <<stdioVars, httpVars, writerVars, metricsVars, mainVars>>

\* GET /health.
CallHandleHealthCheck ==
    /\ call = NoCall
    /\ \E provider \in BOOLEAN, enable_health_checks \in BOOLEAN :
       \E checks \in ChecksOf(provider), found \in [SystemChecks -> HealthStatuses] :
          call' = [op |-> "handle_health_check", arg |-> checks, mid |-> provider,
                   ret |-> handle_health_check(provider, enable_health_checks, checks, found)]
    /\ UNCHANGED <<stdioVars, httpVars, writerVars, metricsVars, mainVars>>

\* GET /ready.
CallHandleReadinessCheck ==
    /\ call = NoCall
    /\ \E provider \in BOOLEAN : \E checks \in ChecksOf(provider) :
          call' = [op |-> "handle_readiness_check", arg |-> checks, mid |-> provider,
                   ret |-> handle_readiness_check(provider, checks)]
    /\ UNCHANGED <<stdioVars, httpVars, writerVars, metricsVars, mainVars>>

NextHealth ==
    \/ CallCalculateOverallStatus
    \/ CallHandleHealthCheck
    \/ CallHandleReadinessCheck

----------------------------------------------------------------------------
(* Percentiles: RequestMetrics::calculate_percentile (health.rs 176-186) *)

\* sorted_times.sort_by(partial_cmp): ascending, by insertion.
RECURSIVE InsertSorted(_, _)
InsertSorted(x, sorted) ==
    IF sorted = <<>> THEN <<x>>
    ELSE IF x <= Head(sorted) THEN <<x>> \o sorted
    ELSE <<Head(sorted)>> \o InsertSorted(x, Tail(sorted))

RECURSIVE SortAscending(_)
SortAscending(times) ==
    IF times = <<>> THEN <<>>
    ELSE InsertSorted(Head(times), SortAscending(Tail(times)))

\* The f64 nearest to p / 100.0, for p in 1..99, is (p * 2^s + c) / (100 * 2^s)
\* with s = 52 - e, where 2^e <= p/100 < 2^(e+1) and c is the rounding of the
\* 53-bit mantissa, in hundredths of its last place.
RECURSIVE BinadeOf(_, _)
BinadeOf(p, scale) == IF p * scale >= 100 THEN 0 ELSE BinadeOf(p, 2 * scale) - 1

RECURSIVE Pow2(_)
Pow2(n) == IF n = 0 THEN 1 ELSE 2 * Pow2(n - 1)

RECURSIVE Pow2Mod100(_)
Pow2Mod100(n) == IF n = 0 THEN 1 ELSE (2 * Pow2Mod100(n - 1)) % 100

MantissaRounding(p) ==
    LET r == (p * Pow2Mod100(52 - BinadeOf(p, 1))) % 100
    IN IF r < 50 THEN 0 - r ELSE 100 - r

\* The largest L with 2^L < j, for j >= 1 (-1 for j = 1): the binade of the
\* f64 values just below j.
RECURSIVE BinadeBelow(_, _)
BinadeBelow(j, l) == IF Pow2(l + 1) < j THEN BinadeBelow(j, l + 1) ELSE l

\* ((percentile / 100.0) * k as f64) as usize, in f64 arithmetic with
\* rounding to nearest: the product is below the integer p*k/100 only when
\* p/100 was rounded down and the product is too far below to round back.
F64Index(p, k) ==
    LET j == (p * k) \div 100 IN
    IF p = 0 \/ p = 100 \/ k = 0 \/ (p * k) % 100 # 0 THEN j
    ELSE LET c == MantissaRounding(p)
             l == IF j = 1 THEN 0 - 1 ELSE BinadeBelow(j, 0)
         IN IF c >= 0 \/ 2 * k * (0 - c) <= 100 * Pow2(l - BinadeOf(p, 1))
            THEN j ELSE j - 1

\* RequestMetrics::calculate_percentile.
calculate_percentile_unsorted(response_times, percentile) ==
    IF response_times = <<>> THEN 0
    ELSE LET last == Len(response_times) - 1
             index == F64Index(percentile, last)
         IN response_times[(IF index < last THEN index ELSE last) + 1]

calculate_percentile(response_times, percentile) ==
    IF response_times = <<>> THEN 0
    ELSE LET sorted_times == SortAscending(response_times)
             last == Len(sorted_times) - 1
             index == F64Index(percentile, last)
         IN sorted_times[(IF index < last THEN index ELSE last) + 1]

\* The windows: n samples that came in from the slowest (n ms) to the
\* fastest (1 ms), and some short ones with equal samples.
Windows ==
    {[i \in 1..n |-> n - i + 1] : n \in 0..MaxWindow}
    \cup {<<150>>, <<200, 100, 200>>, <<100, 200, 150>>, <<7, 7, 7, 7>>}

Percentiles == 0..100

CallCalculatePercentile ==
    /\ call = NoCall
    /\ \E response_times \in Windows, percentile \in Percentiles :
          call' = [op |-> "calculate_percentile", arg |-> response_times,
                   mid |-> percentile,
                   ret |-> calculate_percentile(response_times, percentile)]
    /\ UNCHANGED <<stdioVars, httpVars, writerVars, metricsVars, mainVars>>

NextPercentile == CallCalculatePercentile

----------------------------------------------------------------------------
(* Expiry of a connection at an instant: SseConnection::is_expired          *)
(* (sse_auth.rs 58-64), with the elapsed time in milliseconds               *)

MillisPerSec == 1000
ElapsedStep == 100        \* the instants looked at are 100 ms apart

\* last_activity.elapsed() is Err when the system clock is before
\* last_activity.
ElapsedErr == -1

\* Duration::as_secs: the whole seconds of the duration.
as_secs(elapsed_ms) == elapsed_ms \div MillisPerSec

\* SseConnection::is_expired for timeout_seconds and what elapsed() returns.
is_expired_at(timeout_seconds, elapsed) ==
    IF elapsed # ElapsedErr
    THEN as_secs(elapsed) > timeout_seconds
    ELSE TRUE

TimeoutSeconds == 0..MaxTimeout

ElapsedTimes ==
    {ElapsedErr}
    \cup {k * ElapsedStep : k \in 0..(((MaxTimeout + 2) * MillisPerSec) \div ElapsedStep)}

CallIsExpired ==
    /\ call = NoCall
    /\ \E timeout_seconds \in TimeoutSeconds, elapsed \in ElapsedTimes :
          call' = [op |-> "is_expired", arg |-> timeout_seconds,
                   mid |-> elapsed,
                   ret |-> is_expired_at(timeout_seconds, elapsed)]
    /\ UNCHANGED <<stdioVars, httpVars, writerVars, metricsVars, mainVars>>

NextExpiry == CallIsExpired

----------------------------------------------------------------------------
(* The refresh event of a connection of some age:                           *)
(* SseAuthenticator::create_refresh_event (sse_auth.rs 181-210)             *)

AgeStep == 250            \* the ages looked at are 250 ms apart

\* A connection made by SseConnection::new whose last activity was
\* elapsed_ms ago; the stream keeps the age in whole seconds, as as_secs()
\* gives it.
AgedConnection(timeout_seconds, refresh_token, elapsed_ms) ==
    [NewStream(SseConnection_new("c1", NoIdentity, timeout_seconds, refresh_token))
     EXCEPT !.last_activity = as_secs(elapsed_ms)]

\* Timeouts on either side of the threshold of 300 seconds.
RefreshTimeouts ==
    {30, RefreshThreshold - 1, RefreshThreshold, RefreshThreshold + 1,
     RefreshThreshold + MaxAge - 1}

Ages == {k * AgeStep : k \in 0..((MaxAge * MillisPerSec) \div AgeStep)}

CallCreateRefreshEvent ==
    /\ call = NoCall
    /\ \E timeout_seconds \in RefreshTimeouts, refresh_token \in {Absent, "refresh-1"},
          elapsed_ms \in Ages :
          call' = [op |-> "create_refresh_event",
                   arg |-> [timeout_seconds |-> timeout_seconds,
                            refresh_token |-> refresh_token],
                   mid |-> elapsed_ms,
                   ret |-> create_refresh_event(
                              AgedConnection(timeout_seconds, refresh_token, elapsed_ms))]
    /\ UNCHANGED <<stdioVars, httpVars, writerVars, metricsVars, mainVars>>

NextRefresh == CallCreateRefreshEvent

----------------------------------------------------------------------------
(* The stdio transport as a specification: the HTTP transport is constructed
   and left alone *)

Init ==
    /\ InitStdio
    /\ config = HttpTransport_new
    /\ InitHttpIdle
    /\ InitWriterIdle
    /\ call = NoCall
    /\ InitMetrics
    /\ InitMainIdle

Spec == Init /\ [][Next]_vars

\* The loop is one task of the runtime: it runs whenever it can.
FairSpec == Init /\ [][NextLive]_vars /\ WF_vars(LoopCheck) /\ WF_vars(LoopRead)

\* The writer alone: the loop and a caller of send_message write at will.
WriterSpec == Init /\ [][NextWriter]_vars

\* The codec alone.
CodecSpec == Init /\ [][NextCodec]_vars

\* The Authenticator alone.
AuthSpec == Init /\ [][NextAuth]_vars

\* The handlers of the mutating routes alone.
BodySpec == Init /\ [][NextBody]_vars

\* Requests through the metrics middleware.
MetricsSpec == Init /\ [][NextMetrics]_vars

\* The sample window alone.
WindowSpec == Init /\ [][NextWindow]_vars

\* The health and readiness endpoints alone.
HealthSpec == Init /\ [][NextHealth]_vars

\* The percentile computation alone.
PercentileSpec == Init /\ [][NextPercentile]_vars

\* The expiry test alone.
ExpirySpec == Init /\ [][NextExpiry]_vars

\* The server binary started in any of its modes.
InitMain ==
    /\ InitStdio
    /\ config = HttpTransport_new
    /\ InitHttpIdle
    /\ InitWriterIdle
    /\ call = NoCall
    /\ InitMetrics
    /\ transport_mode \in TransportModes
    /\ main_pc = "start"
    /\ ctrl_c = FALSE
    /\ http_task = "new"
    /\ shutdown_calls = {}
    /\ winner = "none"
    /\ exit_status = NotExited

MainSpec == InitMain /\ [][NextMain]_vars

\* Concurrent callers of record_request and readers of the metrics, on a
\* monitor that has recorded nothing yet or is one sample short of a full
\* window.
Preloaded == {0, WindowCapacity - 1}

InitRecorders ==
    /\ InitStdio
    /\ config = HttpTransport_new
    /\ InitHttpIdle
    /\ InitWriterIdle
    /\ call = NoCall
    /\ InitMainIdle
    /\ active_connections = 0
    /\ in_flight = [r \in 1..MaxRequests |->
                       [pc |-> "new", path |-> Absent, status |-> 0, samples |-> <<>>]]
    /\ InitRecordersIdle
    /\ \E n \in Preloaded :
          /\ total_requests = n
          /\ recorded = [k \in 1..n |-> k]
          /\ request_metrics = [response_times |-> [k \in 1..n |-> k], error_count |-> 0]
          /\ last_minute_requests = [k \in 1..n |-> 0]
          /\ recorded_at = [k \in 1..n |-> 0]
    /\ clock = 0

RecordersSpec == InitRecorders /\ [][NextRecorders]_vars

\* The refresh event alone.
RefreshSpec == Init /\ [][NextRefresh]_vars

\* The request rate as time passes.
RateSpec == Init /\ [][NextRate]_vars

----------------------------------------------------------------------------
(* Properties of the stdio transport *)

\* A line with a method and a u64 id: a Request on the wire.
IsRequestLine(l) == l.wf = "object" /\ l.jsonrpc /\ l.method # Absent /\ l.id >= 0

\* A Request the protocol defines, with params that fit its method.
IsValidRequestLine(l) ==
    /\ IsRequestLine(l)
    /\ \/ l.method = "initialize" /\ l.params = "init"
       \/ l.method = "tools/list"
       \/ l.method = "tools/call" /\ l.params = "call"

IsResponseDoc(d) == d.wf = "object" /\ d.method = Absent /\ d.id >= 0

RepliesTo(id) == {j \in 1..Len(stdout) : IsResponseDoc(stdout[j]) /\ stdout[j].id = id}

\* C1 (as claimed): every Request line the loop has taken - also one with an
\* unknown method or with params that do not parse - has exactly one Response
\* with its id on standard output.  (A line is taken, dispatched and answered
\* in one turn of the loop, so the reply is there as soon as the line is.)
C1_EveryRequestAnswered ==
    \A k \in 1..Len(consumed) :
        IsRequestLine(consumed[k]) => Cardinality(RepliesTo(consumed[k].id)) = 1

\* C2: the replies written are exactly the replies to the valid requests read,
\* one each, with the request's id, in the order the requests were read.
C2_RepliesInArrivalOrder ==
    LET valid == SelectSeq(consumed, IsValidRequestLine) IN
    /\ Len(stdout) = Len(valid)
    /\ \A k \in 1..Len(valid) : IsResponseDoc(stdout[k]) /\ stdout[k].id = valid[k].id

C2_Witness ==
    /\ Len(consumed) = 3
    /\ \A k \in 1..3 : IsValidRequestLine(consumed[k])
    /\ Len(stdout) = 3

\* C3: a turn of the loop that takes a line which fails to decode or to
\* translate writes nothing, leaves the shutdown flag alone and goes back to
\* the top of the loop; a turn that takes a valid request appends its reply,
\* whatever was read before it.
C3_MalformedLineSkipped ==
    [][consumed' # consumed =>
         LET line == consumed'[Len(consumed')] IN
         /\ read_message(line).tag = "err" =>
                /\ stdout' = stdout
                /\ pc' = "check"
                /\ shutdown_signal' = shutdown_signal
         /\ IsValidRequestLine(line) =>
                /\ Len(stdout') = Len(stdout) + 1
                /\ IsResponseDoc(stdout'[Len(stdout')])
                /\ stdout'[Len(stdout')].id = line.id]_vars

C3_Witness ==
    /\ Len(consumed) = 3
    /\ IsValidRequestLine(consumed[1])
    /\ read_message(consumed[2]).tag = "err"
    /\ IsValidRequestLine(consumed[3])
    /\ Len(stdout) = 2
    /\ Lifecycle = "Running"

\* C4 (as claimed): once standard input is at its end and the loop is running,
\* the loop eventually exits, shutdown() or not.
C4_EofEndsLoop == [](eof /\ pc \in {"check", "read"} => <>(pc = "stopped"))

\* C5 (as claimed): after shutdown() on a running transport the loop
\* eventually exits, whether or not another line arrives.
C5_ShutdownAlwaysStops ==
    [](shutdown_signal /\ pc \in {"check", "read"} => <>(pc = "stopped"))

\* C5 (amended): after shutdown() on a running transport the loop exits once
\* the read it is waiting in returns, that is if a line or the end of input is
\* there (or the loop is at its top already).
C5_ShutdownStopsAfterRead ==
    [](shutdown_signal /\ (pc = "check" \/ (pc = "read" /\ (stdin # <<>> \/ eof)))
          => <>(pc = "stopped"))

C5_Witness == pc = "stopped" /\ shutdown_signal /\ sdInRead /\ Len(consumed) > 0

----------------------------------------------------------------------------
(* Properties of the HTTP router and of SSE authentication *)

\* The security middleware, and with it SSE authentication, wraps the routes.
SseAuthInstalled == config.auth_enabled /\ config.security_provider.present

\* What the Authenticator of the configured provider says of each credential
\* a request presents, taken one by one (tag "none": not presented).
HeaderVerdict(req) ==
    IF req.authorization = Absent THEN NoIdentity
    ELSE parse_authorization_header(config.security_provider, req.authorization)

TokenVerdict(req) ==
    IF req.query.token = Absent THEN NoIdentity
    ELSE authenticate_jwt(config.security_provider, req.query.token)

ApiKeyVerdict(req) ==
    IF req.query.api_key = Absent THEN NoIdentity
    ELSE authenticate_api_key(config.security_provider, req.query.api_key)

Verdicts(req) == <<HeaderVerdict(req), TokenVerdict(req), ApiKeyVerdict(req)>>

IsStreamGet(req) == req.method = "GET" /\ req.path = "/sse"

C7_HandlerOnlyAfterValidation ==
    (/\ config.auth_enabled
     /\ resp.req.path \notin {Absent, "/health"}
     /\ resp.handler_ran)
    => resp.identity.tag = "ok"

\* C8: SSE authentication accepts a GET with the identity of the first of
\* header, token, api_key that the Authenticator accepts, and rejects it only
\* when it accepts none (requests presenting a configured key too short for
\* its subject prefix are left to C20).
C8_FirstValidCredentialWins ==
    LET v == Verdicts(resp.req)
        valid == {i \in 1..3 : v[i].tag = "ok"}
        first == CHOOSE i \in valid : \A j \in valid : i <= j
    IN (/\ SseAuthInstalled
        /\ IsStreamGet(resp.req)
        /\ \A i \in 1..3 : v[i].tag # "panic")
       => IF valid = {}
          THEN resp.status = 401 /\ ~resp.handler_ran
          ELSE resp.status = 200 /\ resp.handler_ran /\ resp.identity = v[first]

----------------------------------------------------------------------------
(* Properties of the streams *)

\* Stream s is open and has seen no event for longer than its timeout.
QuietTooLong(s) ==
    /\ s \in DOMAIN streams
    /\ StreamOpen(streams[s])
    /\ streams[s].quiet > streams[s].timeout_seconds

StreamEnded(s) == s \in DOMAIN streams /\ streams[s].pc \in {"ended", "dropped"}

\* C9: an open stream that has been quiet for longer than timeout_seconds is
\* eventually closed (or is no longer quiet).
C9_QuietStreamExpires ==
    \A s \in 1..MaxStreams : [](QuietTooLong(s) => <>(~QuietTooLong(s)))

\* C10: once a stream has ended, the registry eventually holds no sender of
\* its channel.
C10_EndedStreamUnregistered ==
    \A s \in 1..MaxStreams :
        [](StreamEnded(s) => <>(s \notin Registered(sse_clients)))

\* The token_refresh events stream s has emitted.
Refreshes(s) == Len(SelectSeq(streams[s].events, LAMBDA e : e.event = "token_refresh"))

\* C11: a stream emits the token_refresh event at most once in its lifetime.
C11_RefreshAtMostOnce == \A s \in DOMAIN streams : Refreshes(s) <= 1

\* Message n is the newest in the queue of stream k.
NewestInQueue(st, n) == st.queue # <<>> /\ st.queue[Len(st.queue)].n = n

\* Stream k has emitted message n.
Emitted(st, n) == \E i \in 1..Len(st.events) : st.events[i].n = n

MessageEvents(st) == SelectSeq(st.events, LAMBDA e : e.n > 0)

\* The numbers of a sequence of messages rise strictly.
Rising(msgs) == \A i, j \in 1..Len(msgs) : i < j => msgs[i].n < msgs[j].n

\* C13: what a stream has emitted and what still waits in its queue are,
\* together and in this order, messages that were published, each once and in
\* the order of publication.
C13_EventsFollowPublication ==
    \A s \in DOMAIN streams :
        LET seen == MessageEvents(streams[s]) \o streams[s].queue
        IN /\ Rising(seen)
           /\ \A i \in 1..Len(seen) : seen[i].n \in 1..published

\* C13 witness: a stream that lagged has gone on: after message 1 it emitted a
\* later one that is not message 2, the messages in between having been
\* dropped from its full channel.
C13_Witness ==
    /\ Len(streams) = 1
    /\ LET msgs == MessageEvents(streams[1])
       IN /\ Len(msgs) >= 2
          /\ msgs[1].n = 1
          /\ msgs[2].n > 2

----------------------------------------------------------------------------
(* Properties of the writer *)

\* Everything written so far, in the order it reaches standard output.
Written == wire \o writer.buf

\* The writes come in groups of three: the two parts of one text, then the
\* line terminator.
WellFramed(bytes) ==
    \A i \in 1..Len(bytes) :
        CASE (i - 1) % 3 = 0 -> bytes[i].part = "head"
          [] (i - 1) % 3 = 1 -> /\ bytes[i].part = "tail"
                                /\ bytes[i].k = bytes[i - 1].k
                                /\ bytes[i].doc = bytes[i - 1].doc
          [] OTHER -> bytes[i].part = "nl"

InsideWrite(t) == wtask[t].pc \in {"text", "rest", "newline", "flush"}

----------------------------------------------------------------------------
(* Properties of the stdio loop's output *)

\* The line is handed to the handler: read_message returned a message.
Dispatched(l) == read_message(l).tag = "msg"

\* The handler returns a reply for the message of this line.
Replied(l) == Dispatched(l) /\ handle_message(read_message(l).msg, TRUE) # NoReply

\* C15: a turn of the loop that dispatches a message writes one line if the
\* handler returns a reply and none if it returns no reply; every other step
\* writes no line; and the lines written never outnumber the messages
\* dispatched.
C15_OneLinePerReply ==
    /\ [](Len(stdout) <= Len(SelectSeq(consumed, Dispatched)))
    /\ [][LET lines == Len(stdout') - Len(stdout) IN
           IF consumed' # consumed /\ Dispatched(Head(stdin))
           THEN lines = (IF Replied(Head(stdin)) THEN 1 ELSE 0)
           ELSE lines = 0]_vars

\* Two messages were dispatched, a response (no reply) and a request (one
\* reply), and one line was written.
C15_Witness ==
    /\ Len(SelectSeq(consumed, Dispatched)) = 2
    /\ Len(SelectSeq(consumed, Replied)) = 1
    /\ \E k \in 1..Len(consumed) : Decode(consumed[k]).variant = "Response"
    /\ Len(stdout) = 1

----------------------------------------------------------------------------
(* Properties of the codec *)

\* C16 (as claimed): an internal message of any variant, converted to its
\* envelope, serialized, deserialized and converted back, is the message it
\* was.
C16_MessageRoundTrip == call.op = "message" => call.ret = call.arg

\* C17 (as claimed): an envelope that from_jsonrpc accepts is what to_jsonrpc
\* gives back for the translated message: same id, method, params, result
\* and error.
C17_EnvelopeRoundTrip ==
    (call.op = "envelope" /\ call.mid.variant # "Err") => call.ret = call.arg

KnownMethods == {"initialize", "tools/list", "tools/call"}

\* C18: from_jsonrpc on a Request without id fails with the missing-id error,
\* whatever the method; on a Request with an id and a method that is none of
\* the three it fails with the unknown-method error that names the method;
\* neither yields an internal message.
C18_RequestErrors ==
    (call.op = "envelope" /\ call.arg.variant = "Request") =>
        /\ call.arg.id = AbsentId => call.mid = McpErr("Missing request ID")
        /\ (call.arg.id # AbsentId /\ call.arg.method \notin KnownMethods) =>
               call.mid = McpErr("Unknown method: " \o call.arg.method)

\* A Request with neither an id nor a known method was refused for its id.
C18_Witness ==
    /\ call.op = "envelope"
    /\ call.arg.variant = "Request"
    /\ call.arg.id = AbsentId
    /\ call.arg.method = "resources/list"
    /\ call.mid = McpErr("Missing request ID")

----------------------------------------------------------------------------
(* Properties of the Authenticator *)

AuthEntryPoints ==
    {"authenticate_api_key", "authenticate_jwt", "parse_authorization_header"}

\* C19 (as claimed): with enable_auth false every entry point returns Ok with
\* a Bypass identity, whatever it is given.
C19_DisabledAuthBypasses ==
    (call.op \in AuthEntryPoints /\ ~call.mid.enable_auth) =>
        (call.ret.tag = "ok" /\ call.ret.method = "Bypass")

\* C20 (as claimed): with enable_auth true authenticate_api_key returns an
\* ApiKey identity for a configured key of any length and an error for any
\* other key, and always returns.
C20_ApiKeyMembership ==
    (call.op = "authenticate_api_key" /\ call.mid.enable_auth) =>
        IF call.arg \in call.mid.api_keys
        THEN call.ret.tag = "ok" /\ call.ret.method = "ApiKey"
        ELSE call.ret.tag = "err"

----------------------------------------------------------------------------
(* Properties of the mutating routes *)

\* The expression and the resource of the body pass input validation (a
\* member that is not there, and an expression that is not a string, have
\* nothing to validate).
PassesValidation(arguments) ==
    /\ arguments.expression.kind = "string" =>
           validate_fhirpath_expression(arguments.expression).ok
    /\ arguments.resource.kind # "absent" =>
           validate_fhir_resource(arguments.resource).ok

\* C21 (as claimed): on both mutating routes the handler is invoked only for
\* a body that passes validation, and a body that fails gets a 4xx with the
\* sanitized message.
C21_HandlerOnlyAfterValidation ==
    call.op \in {"handle_tool_call", "handle_sse_message"} =>
        /\ call.ret.invoked => PassesValidation(call.arg)
        /\ ~PassesValidation(call.arg) =>
               /\ call.ret.status \in 400..499
               /\ ~call.ret.invoked
               /\ (call.op = "handle_tool_call" => call.ret.error = SanitizedMessage)

----------------------------------------------------------------------------
(* Properties of the metrics *)

InFlight == {r \in 1..MaxRequests : in_flight[r].pc \in {"running", "counting"}}

\* C22 (as claimed): the counter of active connections is the number of
\* requests in flight - 0 whenever none is - and never negative, whatever
\* way the requests left the middleware.
C22_ActiveConnectionsBalanced ==
    /\ active_connections >= 0
    /\ InFlight = {} => active_connections = 0

\* The last n elements of a sequence, in order.
LastOf(seq, n) == SubSeq(seq, Len(seq) - n + 1, Len(seq))

Min(a, b) == IF a < b THEN a ELSE b

\* C23: the window holds the most recent min(n, 1000) of the n samples
\* recorded, in recording order, and never more than 1000.
C23_WindowKeepsMostRecent ==
    LET n == Len(recorded)
        window == request_metrics.response_times
    IN /\ Len(window) = Min(n, WindowCapacity)
       /\ window = LastOf(recorded, Min(n, WindowCapacity))
       /\ Len(window) <= WindowCapacity

\* More samples were recorded than the window holds: the two oldest are gone.
C23_Witness ==
    /\ Len(recorded) = WindowCapacity + 2
    /\ Len(request_metrics.response_times) = WindowCapacity
    /\ request_metrics.response_times[1] = 3
    /\ request_metrics.response_times[WindowCapacity] = WindowCapacity + 2

----------------------------------------------------------------------------
(* Properties of health and readiness *)

AnyCheck(checks, status) == \E n \in DOMAIN checks : checks[n] = status

\* C24: the aggregate of a map of checks is Unhealthy if any check is
\* Unhealthy, otherwise Degraded if any is not Healthy, otherwise Healthy;
\* the empty map is Healthy.
C24_AggregateIsWorstCheck ==
    call.op = "calculate_overall_status" =>
        call.ret = (CASE AnyCheck(call.arg, "Unhealthy") -> "Unhealthy"
                      [] ~AnyCheck(call.arg, "Unhealthy") /\ AnyCheck(call.arg, "Degraded") -> "Degraded"
                      [] OTHER -> "Healthy")

\* A Degraded and an Unhealthy check together: Unhealthy.
C24_Witness ==
    /\ call.op = "calculate_overall_status"
    /\ AnyCheck(call.arg, "Degraded") /\ AnyCheck(call.arg, "Unhealthy") /\ AnyCheck(call.arg, "Healthy")
    /\ call.ret = "Unhealthy"

\* C25: the health endpoint answers 200 when the status it reports is
\* Healthy or Degraded, and 503 exactly when it is Unhealthy.
C25_HealthStatusCode ==
    call.op = "handle_health_check" =>
        /\ call.ret.status \in {"Healthy", "Degraded"} => call.ret.status_code = 200
        /\ call.ret.status_code = 503 <=> call.ret.status = "Unhealthy"

\* A Degraded aggregate was answered 200.
C25_Witness ==
    /\ call.op = "handle_health_check"
    /\ call.ret.status = "Degraded"
    /\ call.ret.status_code = 200

\* C26: the readiness endpoint answers 200 if every registered check is
\* Healthy (none registered included) and 503 otherwise.
C26_ReadyIffAllHealthy ==
    call.op = "handle_readiness_check" =>
        /\ call.ret.status_code \in {200, 503}
        /\ call.ret.status_code = 200 <=>
               \A n \in DOMAIN call.arg : call.arg[n] = "Healthy"

\* One check is Degraded, none Unhealthy: not ready.
C26_Witness ==
    /\ call.op = "handle_readiness_check"
    /\ AnyCheck(call.arg, "Degraded") /\ ~AnyCheck(call.arg, "Unhealthy")
    /\ call.ret.status_code = 503

----------------------------------------------------------------------------
(* Properties of the percentiles *)

\* The element at index i (from 0) of the samples in ascending order: the
\* value with at most i samples below it and more than i samples not above.
Ranked(times, i) ==
    CHOOSE v \in {times[j] : j \in 1..Len(times)} :
        /\ Cardinality({j \in 1..Len(times) : times[j] < v}) <= i
        /\ Cardinality({j \in 1..Len(times) : times[j] <= v}) > i

\* floor((p / 100) * (n - 1)), clamped to n - 1, in exact arithmetic.
ExactIndex(p, n) == Min((p * (n - 1)) \div 100, n - 1)

ReportedPercentiles == {0, 50, 95, 99, 100}

----------------------------------------------------------------------------
(* Properties of the expiry of a connection *)

\* C28: with timeout_seconds = T and no activity, is_expired() is false
\* while the elapsed time is below T seconds and true as soon as it exceeds
\* T seconds, by a fraction of a second too.
C28_ExpiredOnceElapsedExceedsTimeout ==
    (call.op = "is_expired" /\ call.mid # ElapsedErr) =>
        /\ call.mid < call.arg * MillisPerSec => call.ret = FALSE
        /\ call.mid > call.arg * MillisPerSec => call.ret = TRUE

----------------------------------------------------------------------------
(* Properties of the lifecycle of the stdio transport *)

\* The place of a lifecycle state in the order Idle, Running, ShuttingDown,
\* Stopped.
LifecycleRank(state) ==
    CASE state = "Idle" -> 0
      [] state = "Running" -> 1
      [] state = "ShuttingDown" -> 2
      [] state = "Stopped" -> 3

\* C29: the lifecycle only advances along Idle, Running, ShuttingDown,
\* Stopped, and once shutdown() has been requested no step puts the transport
\* into Running: the request is never undone.
C29_ShutdownNeverUndone ==
    [][/\ LifecycleRank(Lifecycle') >= LifecycleRank(Lifecycle)
       /\ shutdown_signal => (shutdown_signal' /\ Lifecycle' # "Running")]_vars

----------------------------------------------------------------------------
(* Properties of the server binary *)

\* C30: in every mode, when the shutdown signal wins the select!, main has
\* called shutdown() on every transport that was running by the time it
\* returns.
C30_ShutdownInvokedOnSignal ==
    (main_pc = "returned" /\ winner = "signal") =>
        RunningTransports \subseteq shutdown_calls

\* C31: the process exits with status 0 after a graceful shutdown (the
\* signal won the select!) and with a non-zero status when a transport failed
\* to start (the HTTP listener could not bind).
C31_ExitStatusTellsFailure ==
    main_pc = "returned" =>
        /\ (winner = "signal" /\ http_task # "bind_failed") => exit_status = ExitOk
        /\ (winner = "transport" /\ http_task = "bind_failed") => exit_status # ExitOk

----------------------------------------------------------------------------
(* Properties of streams that share a client_id *)

\* C32: while a stream is open its registration stays: no step other than
\* the shutdown of the transport takes the sender of an open stream's channel
\* out of the registry or puts another in its place; not the opening of
\* another stream with the same client_id, and not the cleanup of another
\* stream.
C32_OpenStreamKeepsRegistration ==
    [][\/ TransportShutdown
       \/ \A s \in DOMAIN streams :
             (StreamOpen(streams[s]) /\ s \in Registered(sse_clients)) =>
                 /\ streams[s].client_id \in DOMAIN sse_clients'
                 /\ sse_clients'[streams[s].client_id] = s]_vars

----------------------------------------------------------------------------
(* Properties of notifications on the stdio transport *)

\* A line that carries a method and no id.
IsNotificationLine(l) ==
    l.wf = "object" /\ l.jsonrpc /\ l.method # Absent /\ l.id = AbsentId

\* C33: a turn of the loop that takes a line with a method and no id decodes
\* it as a Notification envelope and hands the internal Notification to the
\* handler; read_message does not fail on it.
C33_NotificationDispatched ==
    [][consumed' # consumed =>
         LET line == consumed'[Len(consumed')] IN
         IsNotificationLine(line) =>
             /\ Decode(line).variant = "Notification"
             /\ read_message(line).tag = "msg"
             /\ read_message(line).msg.variant = "Notification"]_vars

----------------------------------------------------------------------------
(* Properties of the samples of the metrics middleware *)

\* The requests that have been answered: by the route handler through the
\* metrics middleware, or by the authentication layer with 401.
Answered == {r \in 1..MaxRequests : in_flight[r].pc \in {"done", "rejected"}}

\* C34: every request that has received a response was recorded as exactly
\* one sample, flagged as an error exactly if its status is 4xx or 5xx; a
\* request the authentication middleware rejected with 401 too.
C34_EveryResponseSampledOnce ==
    \A r \in Answered :
        in_flight[r].samples = <<in_flight[r].status \in 400..599>>

----------------------------------------------------------------------------
(* Properties of the error rate *)

\* Whether the sample of t milliseconds was an error, in a behaviour of
\* RecordSample: all were, or every tenth.
WasError(t) ==
    IF recorded # <<>> /\ request_metrics.error_count = Len(recorded)
    THEN TRUE
    ELSE t % 10 = 0

\* The error samples among those the window retains.
RetainedErrors ==
    {k \in 1..Len(request_metrics.response_times) :
        WasError(request_metrics.response_times[k])}

\* C35: the reported error rate is the percentage of error samples among
\* the samples the window retains, and so lies between 0 and 100 percent.
C35_ErrorRateOfRetainedSamples ==
    /\ request_metrics.response_times # <<>> =>
           error_rate_percent(request_metrics) =
               (Cardinality(RetainedErrors) * 100 * 1000)
                   \div Len(request_metrics.response_times)
    /\ error_rate_percent(request_metrics) >= 0
    /\ error_rate_percent(request_metrics) <= 100 * 1000

----------------------------------------------------------------------------
(* Properties of concurrent recording *)

\* The calls of record_request that have completed: those made before the
\* concurrent callers came, and the callers that have returned.
CompletedCalls ==
    Cardinality({k \in 1..Len(recorded) : recorded[k] < SampleOf(1)})
    + Cardinality({t \in 1..MaxRecorders : recorders[t].pc = "done"})

AllRecordersDone == \A t \in 1..MaxRecorders : recorders[t].pc = "done"

\* C36: no update is lost.  The counter never runs behind the window's
\* history, and once every call has completed, total_requests is the number
\* of calls and the window holds min(calls, 1000) samples, whatever the
\* interleaving with each other and with the reads.
C36_NoUpdateLost ==
    /\ total_requests >= CompletedCalls
    /\ AllRecordersDone =>
          /\ total_requests = CompletedCalls
          /\ Len(request_metrics.response_times) = Min(CompletedCalls, WindowCapacity)
          /\ \A t \in 1..MaxRecorders :
                \E k \in 1..Len(request_metrics.response_times) :
                    request_metrics.response_times[k] = SampleOf(t)

\* All calls have completed on a window that was one short of full, with a
\* read that ran in between.
C36_Witness ==
    /\ AllRecordersDone
    /\ total_requests = WindowCapacity - 1 + MaxRecorders
    /\ Len(request_metrics.response_times) = WindowCapacity
    /\ \E q \in 1..MaxReaders :
          /\ readers[q].pc = "done"
          /\ readers[q].total_requests = WindowCapacity + 1
          /\ readers[q].samples = WindowCapacity

----------------------------------------------------------------------------
(* Properties of the refresh event *)

\* C37: create_refresh_event, the only producer of token_refresh, gives an
\* event only for a connection established with a refresh token, and only
\* when no more than 300 seconds remain of its timeout.
C37_RefreshOnlyWithTokenNearExpiry ==
    (call.op = "create_refresh_event" /\ call.ret) =>
        /\ call.arg.refresh_token # Absent
        /\ call.arg.timeout_seconds * MillisPerSec - call.mid
               <= RefreshThreshold * MillisPerSec

\* A connection with a refresh token and 301 seconds of timeout gets the
\* event one second after its last activity, with 300 seconds left.
C37_Witness ==
    /\ call.op = "create_refresh_event"
    /\ call.arg.refresh_token # Absent
    /\ call.arg.timeout_seconds = RefreshThreshold + 1
    /\ call.mid = MillisPerSec
    /\ call.ret

----------------------------------------------------------------------------
(* Properties of the subject of an API-key identity *)

\* C38: the subject of an identity that API-key authentication produced
\* exposes a strict prefix of the key, never the whole key, whatever the
\* length of the accepted key.
C38_SubjectExposesStrictPrefix ==
    (call.op = "authenticate_api_key" /\ call.ret.tag = "ok"
        /\ call.ret.method = "ApiKey") =>
        LET exposed == StripPrefix(call.ret.subject, "api_key:")
        IN /\ StartsWith(call.arg, exposed)
           /\ Len(exposed) < Len(call.arg)

----------------------------------------------------------------------------
(* Properties of the stream endpoint without SSE authentication *)

\* The step registers a sender: a client_id is new in the registry or is
\* mapped to another channel.
RegistersSender ==
    \E c \in DOMAIN sse_clients' :
        c \notin DOMAIN sse_clients \/ sse_clients'[c] # sse_clients[c]

\* C39: a step opens a stream or registers a sender only for a GET on the
\* stream endpoint that SSE authentication let through with an identity; a
\* GET on the stream endpoint that did not go through SSE authentication
\* (no authentication layer, or the legacy middleware, which skips the
\* endpoint) is answered 500, and no stream and no registry entry is made.
C39_StreamOnlyAfterSseAuthentication ==
    [][/\ (Len(streams') > Len(streams) \/ RegistersSender) =>
              /\ IsStreamGet(resp'.req)
              /\ resp'.via = "sse_auth"
              /\ resp'.identity.tag = "ok"
              /\ resp'.status = 200
       /\ (resp' # resp /\ IsStreamGet(resp'.req) /\ resp'.via # "sse_auth") =>
              /\ resp'.outcome = "response"
              /\ resp'.status = 500
              /\ streams' = streams
              /\ sse_clients' = sse_clients]_vars

\* A GET on the stream endpoint behind the legacy middleware, with a Bearer
\* header, was handed to the handler and answered 500; nothing is open.
C39_Witness ==
    /\ config.auth_enabled
    /\ ~config.security_provider.present
    /\ IsStreamGet(resp.req)
    /\ resp.req.authorization = "Bearer eyJ.alice"
    /\ resp.via = "skipped"
    /\ resp.handler_ran
    /\ resp.status = 500
    /\ streams = <<>>
    /\ sse_clients = EmptyRegistry

----------------------------------------------------------------------------
(* Properties of the request rate *)

\* The requests recorded during the 60 seconds before now.
RecordedLastMinute ==
    {k \in 1..Len(recorded_at) : clock - recorded_at[k] <= MinuteSecs}

\* C40: what a read of requests_per_minute returns is the number of requests
\* recorded during the 60 seconds before the read, also when nothing was
\* recorded since the older ones aged out.
C40_RateCountsLastMinute ==
    requests_per_minute(last_minute_requests) = Cardinality(RecordedLastMinute)

====
